---- MODULE Spec2Model ----
(***************************************************************************)
(* Model of the wellness scorer (project/src/lib/ai-services.ts) and of    *)
(* the mock profile / auth stores (src/lib/supabase.ts).                   *)
(*                                                                         *)
(* JavaScript numbers are IEEE-754 doubles.  The arithmetic of             *)
(* calculateResilienceScore is modelled on doubles: every operation        *)
(* computes the exact result and rounds it to 53 significant bits, ties to *)
(* even.  Significands are kept as little-endian sequences of 15-bit limbs *)
(* so that no intermediate value leaves the range of the checker's         *)
(* integers.                                                               *)
(***************************************************************************)
EXTENDS Integers, Sequences, FiniteSets, TLC

\* ---------------------------------------------------------------------
\* Natural numbers of arbitrary size (little-endian limbs, no high zeros)
\* ---------------------------------------------------------------------
LimbBits == 15
Base == 2 ^ LimbBits

Max(a, b) == IF a > b THEN a ELSE b
Min(a, b) == IF a < b THEN a ELSE b

RECURSIVE BigNorm(_)
BigNorm(a) ==
  IF a = <<>> THEN <<>>
  ELSE IF a[Len(a)] = 0 THEN BigNorm(SubSeq(a, 1, Len(a) - 1))
  ELSE a

RECURSIVE BigFromInt(_)
BigFromInt(n) ==
  IF n = 0 THEN <<>> ELSE <<n % Base>> \o BigFromInt(n \div Base)

RECURSIVE BigToInt(_)
BigToInt(a) ==
  IF a = <<>> THEN 0 ELSE a[1] + Base * BigToInt(Tail(a))

Limb(a, i) == IF i <= Len(a) THEN a[i] ELSE 0

RECURSIVE BigAddFrom(_, _, _, _)
BigAddFrom(a, b, i, carry) ==
  IF i > Len(a) /\ i > Len(b)
  THEN (IF carry = 0 THEN <<>> ELSE <<carry>>)
  ELSE LET t == Limb(a, i) + Limb(b, i) + carry
       IN  <<t % Base>> \o BigAddFrom(a, b, i + 1, t \div Base)

BigAdd(a, b) == BigAddFrom(a, b, 1, 0)

RECURSIVE BigSubFrom(_, _, _, _)
BigSubFrom(a, b, i, borrow) ==
  IF i > Len(a) THEN <<>>
  ELSE LET t == Limb(a, i) - Limb(b, i) - borrow
       IN  IF t < 0
           THEN <<t + Base>> \o BigSubFrom(a, b, i + 1, 1)
           ELSE <<t>> \o BigSubFrom(a, b, i + 1, 0)

\* a - b for a >= b
BigSub(a, b) == BigNorm(BigSubFrom(a, b, 1, 0))

RECURSIVE BigMulSmallFrom(_, _, _, _)
BigMulSmallFrom(a, m, i, carry) ==
  IF i > Len(a)
  THEN (IF carry = 0 THEN <<>> ELSE <<carry>>)
  ELSE LET t == a[i] * m + carry
       IN  <<t % Base>> \o BigMulSmallFrom(a, m, i + 1, t \div Base)

\* a * m for a limb-sized m
BigMulSmall(a, m) == IF m = 0 THEN <<>> ELSE BigMulSmallFrom(a, m, 1, 0)

RECURSIVE BigMulFrom(_, _, _)
BigMulFrom(a, b, j) ==
  IF j > Len(b) THEN <<>>
  ELSE LET rest == BigMulFrom(a, b, j + 1)
           high == IF rest = <<>> THEN <<>> ELSE <<0>> \o rest
       IN  BigAdd(BigMulSmall(a, b[j]), high)

BigMul(a, b) == BigMulFrom(a, b, 1)

RECURSIVE BigDivSmallFrom(_, _, _, _)
BigDivSmallFrom(a, d, i, r) ==
  IF i = 0 THEN [q |-> <<>>, r |-> r]
  ELSE LET cur  == r * Base + a[i]
           rest == BigDivSmallFrom(a, d, i - 1, cur % d)
       IN  [q |-> rest.q \o <<cur \div d>>, r |-> rest.r]

\* quotient and remainder of a by a limb-sized d > 0
BigDivSmall(a, d) ==
  LET res == BigDivSmallFrom(a, d, Len(a), 0)
  IN  [q |-> BigNorm(res.q), r |-> res.r]

Zeros(k) == [i \in 1..k |-> 0]

\* a * 2^k
BigShl(a, k) ==
  IF a = <<>> THEN <<>>
  ELSE Zeros(k \div LimbBits) \o BigMulSmall(a, 2 ^ (k % LimbBits))

\* floor(a / 2^k)
BigShr(a, k) ==
  IF Len(a) <= k \div LimbBits THEN <<>>
  ELSE BigDivSmall(SubSeq(a, k \div LimbBits + 1, Len(a)), 2 ^ (k % LimbBits)).q

RECURSIVE Bits(_)
Bits(n) == IF n = 0 THEN 0 ELSE 1 + Bits(n \div 2)

BitLen(a) == IF a = <<>> THEN 0 ELSE (Len(a) - 1) * LimbBits + Bits(a[Len(a)])

RECURSIVE BigCmpFrom(_, _, _)
BigCmpFrom(a, b, i) ==
  IF i = 0 THEN 0
  ELSE IF a[i] > b[i] THEN 1
  ELSE IF a[i] < b[i] THEN -1
  ELSE BigCmpFrom(a, b, i - 1)

\* sign of a - b
BigCmp(a, b) ==
  IF Len(a) > Len(b) THEN 1
  ELSE IF Len(a) < Len(b) THEN -1
  ELSE BigCmpFrom(a, b, Len(a))

\* ---------------------------------------------------------------------
\* Non-negative IEEE-754 doubles: value = sig * 2^exp, sig has 53 bits
\* (or is empty for +0).  No value of the scorer is negative, subnormal
\* or out of range.
\* ---------------------------------------------------------------------
SigBits == 53

NumZero == [sig |-> <<>>, exp |-> 0]

\* the double nearest to sig * 2^exp, ties to even
NumRound(sig, exp) ==
  LET len == BitLen(sig) IN
  IF len = 0 THEN NumZero
  ELSE IF len <= SigBits
  THEN [sig |-> BigShl(sig, SigBits - len), exp |-> exp - (SigBits - len)]
  ELSE LET k    == len - SigBits
           q    == BigShr(sig, k)
           rem  == BigSub(sig, BigShl(q, k))
           half == BigShl(<<1>>, k - 1)
           cmp  == BigCmp(rem, half)
           up   == cmp > 0 \/ (cmp = 0 /\ q[1] % 2 = 1)
           q1   == IF up THEN BigAdd(q, <<1>>) ELSE q
       IN  IF BitLen(q1) > SigBits
           THEN [sig |-> BigShr(q1, 1), exp |-> exp + k + 1]
           ELSE [sig |-> q1, exp |-> exp + k]

\* the double of a small natural number
NumOfInt(n) == NumRound(BigFromInt(n), 0)

QuotBits == 75

\* a / n for naturals a, n (n > 0): the correctly rounded quotient.  The
\* remainder is folded into a sticky lowest bit, far below the rounding bit.
NumDivInt(a, n) ==
  LET d == BigDivSmall(BigShl(BigFromInt(a), QuotBits), n)
      sticky == IF d.r = 0 THEN <<>> ELSE <<1>>
  IN  NumRound(BigAdd(BigShl(d.q, 1), sticky), 0 - (QuotBits + 1))

NumMul(x, y) == NumRound(BigMul(x.sig, y.sig), x.exp + y.exp)

NumAdd(x, y) ==
  IF x.sig = <<>> THEN y
  ELSE IF y.sig = <<>> THEN x
  ELSE LET e == Min(x.exp, y.exp)
       IN  NumRound(BigAdd(BigShl(x.sig, x.exp - e), BigShl(y.sig, y.exp - e)), e)

\* x - y for x >= y
NumSub(x, y) ==
  IF y.sig = <<>> THEN x
  ELSE LET e == Min(x.exp, y.exp)
       IN  NumRound(BigSub(BigShl(x.sig, x.exp - e), BigShl(y.sig, y.exp - e)), e)

\* Math.round: floor(x + 0.5), computed exactly
MathRound(x) ==
  IF x.sig = <<>> THEN 0
  ELSE IF x.exp >= 0 THEN BigToInt(BigShl(x.sig, x.exp))
  ELSE LET k == 0 - x.exp
       IN  BigToInt(BigShr(BigAdd(x.sig, BigShl(<<1>>, k - 1)), k))

\* the literals 0.4, 0.3 and 10 of the score formula
Lit04 == NumDivInt(4, 10)
Lit03 == NumDivInt(3, 10)
Lit10 == NumOfInt(10)

\* ---------------------------------------------------------------------
\* WellnessScorer (MoodAnalysisService)
\* ---------------------------------------------------------------------
VARIABLES
  moodLogs,          \* the student's mood logs, newest last (append-only)
  scoreCall,         \* argument kind of the last calculateResilienceScore call
  resilienceScore,   \* value it returned (-1: no call yet)
  recArgs,           \* arguments of the last generateWellnessRecommendations call
  recommendations,   \* value it returned
  dbProfiles,        \* mockStorage.profiles of dbHelpers: id -> profile
  authUsers,         \* mockStorage.users of authService: email -> entry
  authProfiles,      \* mockStorage.profiles of authService: id -> profile
  currentUser,       \* mockStorage.currentUser of authService
  now,               \* what new Date() returns
  ret,               \* the last call of dbHelpers / authService and its result
  calls,             \* number of calls of dbHelpers / authService so far
  created,           \* id -> argument of the createProfile call that stored
                     \* the record, while no later call has touched that id
  isDevelopment,     \* TRUE: Supabase is not configured, the mock backend runs
  remoteUsers,       \* live: auth.users of Supabase, email -> user
  remoteProfiles,    \* live: table profiles, id -> row
  studentProfiles,   \* live: table student_profiles, user_id -> row
  companyProfiles,   \* live: table company_profiles, user_id -> row
  session,           \* live: the session of the Supabase client, a user or Null
  remoteLog,         \* the requests the last call sent to Supabase, in order
  subscriptions,     \* listener -> "active" | "unsubscribed", as registered
                     \* with authService.onAuthStateChange
  delivered,         \* listener -> the events its callback was invoked with
  auth,              \* AuthProvider: the state { user, profile, loading, error }
  mounted,           \* AuthProvider: the flag of the effect's closure
  subscription,      \* AuthProvider: "active" until subscription.unsubscribe()
  initPc,            \* getInitialSession: the await it is suspended at
  initUserId,        \* getInitialSession: the id its fetchProfile asked for
  cbFetches,         \* the ids the fetchProfile calls of suspended auth-change
                     \* callbacks asked for, one entry per callback
  inflight,          \* the suspended signIn / signUp / signOut /
                     \* updateProfile calls of the context
  events,            \* number of auth-change events delivered so far
  uiCalls,           \* number of calls of the context's functions so far
  writes,            \* the state setters the last step called
  lastStep,          \* the function the last step ran in
  openaiKey,         \* OpenAIService.apiKey
  hfKey,             \* MoodAnalysisService.apiKey
  requests,          \* the HTTP requests the last call of a service issued
  advice,            \* the last call of a service: its function, what the
                     \* outside world answered and what the call resolved to
  jobPostings,       \* table job_postings: the ids of its rows
  studentIds,        \* table student_profiles: the ids (not user_id) of its rows
  applications,      \* table applications: id -> row
  sqlResult,         \* the last statement on these tables and how it ended
  form               \* one mounted LoginForm or RegisterForm: its state, what
                     \* its committed render shows, and its requests

wellnessVars == <<moodLogs, scoreCall, resilienceScore, recArgs, recommendations>>
storeVars == <<dbProfiles, authUsers, authProfiles, currentUser, now, ret,
               calls, created>>
liveVars == <<isDevelopment, remoteUsers, remoteProfiles, studentProfiles,
              companyProfiles, session, remoteLog, subscriptions, delivered>>
providerVars == <<auth, mounted, subscription, initPc, initUserId, cbFetches,
                  inflight, events, uiCalls, writes, lastStep>>
advisorVars == <<openaiKey, hfKey, requests, advice>>
schemaVars == <<jobPostings, studentIds, applications, sqlResult>>
formVars == <<form>>
otherVars == <<providerVars, advisorVars, schemaVars, formVars>>
vars == <<wellnessVars, storeVars, liveVars, otherVars>>

\* mood_score, stress_level and energy_level are integers MinLevel..MaxLevel
MinLevel == 1
MaxLevel == 10
Levels == MinLevel..MaxLevel

MaxLogs == 8   \* longest mood-log history explored

MoodLog(m, s, e) == [mood_score |-> m, stress_level |-> s, energy_level |-> e]

\* the entries the histories are built from
SampleLogs == {MoodLog(5, 5, 5), MoodLog(10, 1, 10), MoodLog(4, 3, 4)}

NoCall == "none"

\* the argument of calculateResilienceScore: an array, or any other value
ArrayOf(items) == [isArray |-> TRUE, items |-> items]
NotAnArray == [isArray |-> FALSE, items |-> <<>>]

WindowSize == 7

\* a.slice(0, n): the oldest entries instead of the newest
SliceFirst(a, n) ==
  IF Len(a) <= n THEN a ELSE SubSeq(a, 1, n)

\* a.slice(-n)
SliceLast(a, n) ==
  IF Len(a) <= n THEN a ELSE SubSeq(a, Len(a) - n + 1, Len(a))

\* v || d
OrDefault(v, d) == IF v = 0 THEN d ELSE v

\* logs.reduce((sum, log) => sum + (log[field] || 5), 0); the sum is a small
\* integer, which doubles hold exactly
RECURSIVE SumField(_, _)
SumField(logs, field) ==
  IF logs = <<>> THEN 0
  ELSE OrDefault(Head(logs)[field], 5) + SumField(Tail(logs), field)

\* sum / 7: divides by the window size instead of the number of entries
AverageOverWindow(recentLogs, field) ==
  NumDivInt(SumField(recentLogs, field), WindowSize)

\* sum / recentLogs.length
Average(recentLogs, field) ==
  NumDivInt(SumField(recentLogs, field), Len(recentLogs))

\* (avgMood * 0.4 + avgStress * 0.3 + avgEnergy * 0.3) * 10: stress not inverted
WeightedScoreStressNotInverted(avgMood, avgStress, avgEnergy) ==
  NumMul(NumAdd(NumAdd(NumMul(avgMood, Lit04), NumMul(avgStress, Lit03)),
                NumMul(avgEnergy, Lit03)),
         Lit10)

\* (avgMood * 0.4 + (10 - avgStress) * 0.3 + avgEnergy * 0.3) * 10
WeightedScore(avgMood, avgStress, avgEnergy) ==
  NumMul(NumAdd(NumAdd(NumMul(avgMood, Lit04),
                       NumMul(NumSub(Lit10, avgStress), Lit03)),
                NumMul(avgEnergy, Lit03)),
         Lit10)

NeutralScore == 50

\* returns 0 instead of the neutral 50 when there is nothing to average
calculateResilienceScoreZeroDefault(arg) ==
  IF ~arg.isArray \/ Len(arg.items) = 0 THEN 0
  ELSE LET recentLogs == SliceLast(arg.items, WindowSize) IN
       IF Len(recentLogs) = 0 THEN 0
       ELSE LET avgMood   == Average(recentLogs, "mood_score")
                avgStress == Average(recentLogs, "stress_level")
                avgEnergy == Average(recentLogs, "energy_level")
                score     == MathRound(WeightedScore(avgMood, avgStress, avgEnergy))
            IN  Max(0, Min(100, score))

calculateResilienceScore(arg) ==
  IF ~arg.isArray \/ Len(arg.items) = 0 THEN NeutralScore
  ELSE LET recentLogs == SliceLast(arg.items, WindowSize) IN
       IF Len(recentLogs) = 0 THEN NeutralScore
       ELSE LET avgMood   == Average(recentLogs, "mood_score")
                avgStress == Average(recentLogs, "stress_level")
                avgEnergy == Average(recentLogs, "energy_level")
                score     == MathRound(WeightedScore(avgMood, avgStress, avgEnergy))
            IN  Max(0, Min(100, score))

LowMoodMessages ==
  << "Consider talking to a counselor or trusted friend",
     "Try engaging in activities you enjoy" >>

StressMessages ==
  << "Practice deep breathing or meditation",
     "Take regular breaks from work/study",
     "Consider time management techniques" >>

EnergyMessages ==
  << "Ensure you're getting adequate sleep",
     "Try light exercise or a short walk",
     "Check your nutrition and hydration" >>

PositiveMessages ==
  << "Keep up the great work on your wellness!",
     "Continue your current healthy habits" >>

\* stressLevel >= 7 instead of stressLevel > 7
HighStressInclusive(stressLevel) == stressLevel >= 7

HighStress(stressLevel) == stressLevel > 7

generateWellnessRecommendations(moodScore, stressLevel, energyLevel) ==
  LET r1 == IF moodScore < 4 THEN LowMoodMessages ELSE <<>>
      r2 == IF HighStress(stressLevel) THEN r1 \o StressMessages ELSE r1
      r3 == IF energyLevel < 4 THEN r2 \o EnergyMessages ELSE r2
  IN  IF Len(r3) = 0 THEN PositiveMessages ELSE r3

\* ---------------------------------------------------------------------
\* ProfileStore (dbHelpers) and AuthGateway (authService), mock backend
\* ---------------------------------------------------------------------
MaxIds == 2     \* ids 1..MaxIds exist
MaxClock == 1   \* new Date() returns 0..MaxClock
MaxCalls == 3   \* calls of dbHelpers / authService explored per run
MaxLiveCalls == 2   \* the same, when the calls go to the live backend

Ids == 1..MaxIds
Emails == {"ann@x.io", "bob@x.io"}

Null == [null |-> TRUE]
NoError == "null"
NoCallYet == [op |-> "none"]

EmptyMap == [k \in {} |-> Null]

\* map.set(key, value)
MapSet(map, key, value) ==
  [k \in DOMAIN map \cup {key} |-> IF k = key THEN value ELSE map[k]]

\* map without key
MapRemove(map, key) == [k \in DOMAIN map \ {key} |-> map[k]]

\* { ...b, ...a }: the spread with its operands swapped, the fields of a win
SpreadSwapped(a, b) ==
  [f \in DOMAIN a \cup DOMAIN b |-> IF f \in DOMAIN a THEN a[f] ELSE b[f]]

\* { ...a, ...b }
Spread(a, b) ==
  [f \in DOMAIN a \cup DOMAIN b |-> IF f \in DOMAIN b THEN b[f] ELSE a[f]]

\* the arguments callers pass to createProfile: Partial<Profile>, without an
\* id or with one, with or without a timestamp of the caller's
CreateInputs ==
  {[email |-> "ann@x.io", full_name |-> "Ann", role |-> "student",
    created_at |-> 9]}
  \cup {[id |-> i, email |-> "bob@x.io", full_name |-> "Bob", role |-> "company"]
          : i \in Ids}

\* the arguments callers pass to updateProfile: Partial<Profile>, with a
\* name, an id or a timestamp of the caller's
UpdateInputs ==
  {[full_name |-> "Zed"], [id |-> 1], [updated_at |-> 9]}

\* the arguments callers pass to signUp: SignUpData
SignUpInputs ==
  { [full_name |-> "Ann", role |-> "student", college_name |-> "MIT"],
    [full_name |-> "Bob", role |-> "company", company_name |-> "Acme"] }

\* the ids of the identities in auth.users
IdentityIds == {remoteUsers[e].id : e \in DOMAIN remoteUsers}

\* crypto.randomUUID() and the uuid generator of Supabase return an id that
\* no record carries as its key
FreshIds ==
  Ids \ (DOMAIN dbProfiles \cup DOMAIN authProfiles \cup IdentityIds
         \cup DOMAIN remoteProfiles)

\* how a request to Supabase ends: the backend answers it (with the row, or
\* with the error of a violated constraint or of a missing row), the client
\* returns an error value (transport failure, rejected by row level
\* security), or the awaited promise rejects
RemoteOutcomes == {"ok", "error", "throw"}

RemoteError == "remote error"             \* an error value of the client
ThrownFailure == "Failed to fetch"        \* the reason of a rejected promise
ConstraintViolation == "constraint violation"
NoRows == "PGRST116"                      \* .single() found no row

\* the error of a request that was not answered with a row
FailureOf(outcome, answer) ==
  IF outcome = "throw" THEN ThrownFailure
  ELSE IF outcome = "error" THEN RemoteError
  ELSE answer

\* table profiles accepts the row: id is its primary key and references
\* auth.users(id), email is UNIQUE NOT NULL, full_name and role are NOT NULL
ProfileInsertAccepted(row) ==
  /\ {"id", "email", "full_name", "role"} \subseteq DOMAIN row
  /\ row.id \in IdentityIds
  /\ row.id \notin DOMAIN remoteProfiles
  /\ \A k \in DOMAIN remoteProfiles : remoteProfiles[k].email # row.email

\* table profiles accepts the update of the row with id userId: a changed id
\* must stay a unique primary key that references auth.users(id), and the row
\* must not be referenced by student_profiles or company_profiles
ProfileUpdateAccepted(userId, updates) ==
  ("id" \in DOMAIN updates /\ updates.id # userId) =>
     /\ updates.id \in IdentityIds
     /\ updates.id \notin DOMAIN remoteProfiles
     /\ userId \notin DOMAIN studentProfiles \cup DOMAIN companyProfiles

\* no mood log is recorded and nothing was computed
InitWellness ==
  /\ moodLogs = <<>>
  /\ scoreCall = NoCall
  /\ resilienceScore = -1
  /\ recArgs = <<>>
  /\ recommendations = <<>>

\* the maps of both mockStorage objects are empty, nobody is signed in
InitStores ==
  /\ dbProfiles = EmptyMap
  /\ authUsers = EmptyMap
  /\ authProfiles = EmptyMap
  /\ currentUser = Null
  /\ calls = 0
  /\ now = 0
  /\ ret = NoCallYet
  /\ created = EmptyMap

\* the Supabase project holds no identity and no row, no listener is
\* registered
InitRemote ==
  /\ remoteUsers = EmptyMap
  /\ remoteProfiles = EmptyMap
  /\ studentProfiles = EmptyMap
  /\ companyProfiles = EmptyMap
  /\ session = Null
  /\ remoteLog = <<>>
  /\ subscriptions = EmptyMap
  /\ delivered = EmptyMap

\* AuthProvider was rendered once and its effect has run: getInitialSession
\* awaits supabase.auth.getSession() and the auth-change callback is
\* subscribed
InitProvider ==
  /\ auth = [user |-> Null, profile |-> Null, loading |-> TRUE,
             error |-> NoError]
  /\ mounted = TRUE
  /\ subscription = "active"
  /\ initPc = "getSession"
  /\ initUserId = 0
  /\ cbFetches = <<>>
  /\ inflight = <<>>
  /\ events = 0
  /\ uiCalls = 0
  /\ writes = {}
  /\ lastStep = "useEffect"

\* no call of a service was made yet
InitAdvisor ==
  /\ requests = <<>>
  /\ advice = NoCallYet

\* the migration has created the tables job_postings, student_profiles and
\* applications, which hold no row
InitSchema ==
  /\ jobPostings = {}
  /\ studentIds = {}
  /\ applications = EmptyMap
  /\ sqlResult = NoCallYet

\* a form as its first render left it: useState(false), no request
NewForm(kind) ==
  [kind |-> kind, isSubmitting |-> FALSE, rendered |-> FALSE,
   outstanding |-> 0, submits |-> 0, last |-> "none",
   formError |-> [field |-> "none", message |-> ""],
   navigated |-> FALSE]

InitForm == form = NewForm("LoginForm")

\* the module was loaded with neither Supabase nor an API key configured
Init ==
  /\ InitWellness
  /\ InitStores
  /\ isDevelopment = TRUE
  /\ InitRemote
  /\ InitProvider
  /\ openaiKey = ""
  /\ hfKey = ""
  /\ InitAdvisor
  /\ InitSchema
  /\ InitForm

\* a mood log is recorded; logs are never changed afterwards
LogMood(entry) ==
  /\ Len(moodLogs) < MaxLogs
  /\ moodLogs' = Append(moodLogs, entry)
  /\ scoreCall' = NoCall
  /\ resilienceScore' = -1
  /\ UNCHANGED <<recArgs, recommendations, storeVars, liveVars, otherVars>>

\* calculateResilienceScore(moodLogs)
CalculateResilienceScore ==
  /\ scoreCall = NoCall
  /\ scoreCall' = "array"
  /\ resilienceScore' = calculateResilienceScore(ArrayOf(moodLogs))
  /\ UNCHANGED <<moodLogs, recArgs, recommendations, storeVars, liveVars, otherVars>>

\* calculateResilienceScore(x) for an x that is not an array
CalculateResilienceScoreNoArray ==
  /\ scoreCall = NoCall
  /\ scoreCall' = "notArray"
  /\ resilienceScore' = calculateResilienceScore(NotAnArray)
  /\ UNCHANGED <<moodLogs, recArgs, recommendations, storeVars, liveVars, otherVars>>

NextResilience ==
  \/ \E entry \in SampleLogs : LogMood(entry)
  \/ CalculateResilienceScore
  \/ CalculateResilienceScoreNoArray

SpecResilience == Init /\ [][NextResilience]_vars

\* generateWellnessRecommendations(moodScore, stressLevel, energyLevel)
GenerateWellnessRecommendations(moodScore, stressLevel, energyLevel) ==
  /\ recArgs' = <<moodScore, stressLevel, energyLevel>>
  /\ recommendations' =
       generateWellnessRecommendations(moodScore, stressLevel, energyLevel)
  /\ UNCHANGED <<moodLogs, scoreCall, resilienceScore, storeVars, liveVars, otherVars>>

NextRecommend ==
  \E m \in Levels, s \in Levels, e \in Levels :
     GenerateWellnessRecommendations(m, s, e)

SpecRecommend == Init /\ [][NextRecommend]_vars

\* ---------------------------------------------------------------------
\* Operations of the mock backend (isDevelopment / isDevMode is true)
\* ---------------------------------------------------------------------

\* time passes
Tick ==
  /\ now < MaxClock
  /\ now' = now + 1
  /\ ret' = NoCallYet
  /\ UNCHANGED <<calls, dbProfiles, authUsers, authProfiles, currentUser,
                 created, wellnessVars, liveVars, otherVars>>

\* one more call is made
Call ==
  /\ calls < (IF isDevelopment THEN MaxCalls ELSE MaxLiveCalls)
  /\ calls' = calls + 1

\* createProfile that always generates the id: { ...userData, id: randomUUID() }
DbCreateProfileAlwaysNewId(userData, newId) ==
  /\ Call
  /\ LET profile == Spread(userData,
                           [id |-> newId, created_at |-> now, updated_at |-> now])
     IN  /\ newId \in FreshIds
         /\ dbProfiles' = MapSet(dbProfiles, profile.id, profile)
         /\ created' = MapSet(created, profile.id, userData)
         /\ ret' = [op |-> "dbHelpers.createProfile", id |-> profile.id,
                    arg |-> userData, data |-> profile, error |-> NoError]
         /\ UNCHANGED <<authUsers, authProfiles, currentUser, now,
                        wellnessVars, liveVars, otherVars>>

\* createProfile of the live backend: insert([userData]).select().single(),
\* an error of the query is thrown and every thrown value is caught
LiveCreateProfile(userData, outcome) ==
  LET stored == Spread([created_at |-> now, updated_at |-> now], userData)
  IN  /\ remoteLog' = <<"profiles.insert">>
      /\ IF outcome = "ok" /\ ProfileInsertAccepted(userData)
         THEN /\ remoteProfiles' = MapSet(remoteProfiles, userData.id, stored)
              /\ created' = MapSet(created, userData.id, userData)
              /\ ret' = [op |-> "dbHelpers.createProfile", id |-> userData.id,
                         arg |-> userData, data |-> stored, error |-> NoError]
         ELSE /\ ret' = [op |-> "dbHelpers.createProfile", id |-> Null,
                         arg |-> userData, data |-> Null,
                         error |-> FailureOf(outcome, ConstraintViolation)]
              /\ UNCHANGED <<remoteProfiles, created>>
      /\ UNCHANGED <<dbProfiles, authUsers, authProfiles, currentUser, now,
                     wellnessVars, otherVars, isDevelopment, remoteUsers, studentProfiles,
                     companyProfiles, session, subscriptions, delivered>>

\* dbHelpers.createProfile(userData); newId is what crypto.randomUUID() would
\* return
DbCreateProfile(userData, newId) ==
  /\ Call
  /\ IF isDevelopment
     THEN LET id == IF "id" \in DOMAIN userData THEN userData.id ELSE newId
              profile == Spread(userData,
                                [id |-> id, created_at |-> now,
                                 updated_at |-> now])
          IN  /\ "id" \notin DOMAIN userData => newId \in FreshIds
              /\ dbProfiles' = MapSet(dbProfiles, profile.id, profile)
              /\ created' = MapSet(created, profile.id, userData)
              /\ ret' = [op |-> "dbHelpers.createProfile", id |-> profile.id,
                         arg |-> userData, data |-> profile, error |-> NoError]
              /\ UNCHANGED <<authUsers, authProfiles, currentUser, now,
                             wellnessVars, liveVars, otherVars>>
     ELSE /\ newId = 1        \* not used: the row carries the id or none
          /\ \E outcome \in RemoteOutcomes :
                LiveCreateProfile(userData, outcome)

\* getProfile of the live backend: select('*').eq('id', userId).single()
LiveGetProfile(userId, outcome) ==
  /\ remoteLog' = <<"profiles.select">>
  /\ ret' = IF outcome = "ok" /\ userId \in DOMAIN remoteProfiles
            THEN [op |-> "dbHelpers.getProfile", id |-> userId, arg |-> Null,
                  data |-> remoteProfiles[userId], error |-> NoError]
            ELSE [op |-> "dbHelpers.getProfile", id |-> userId, arg |-> Null,
                  data |-> Null, error |-> FailureOf(outcome, NoRows)]
  /\ UNCHANGED <<dbProfiles, authUsers, authProfiles, currentUser, now,
                 created, wellnessVars, otherVars, isDevelopment, remoteUsers,
                 remoteProfiles, studentProfiles, companyProfiles, session,
                 subscriptions, delivered>>

\* getProfile that returns null data without an error for a missing id
DbGetProfileNullOnMissing(userId) ==
  /\ Call
  /\ ret' = IF isDevelopment /\ userId \in DOMAIN dbProfiles
            THEN [op |-> "dbHelpers.getProfile", id |-> userId, arg |-> Null,
                  data |-> dbProfiles[userId], error |-> NoError]
            ELSE IF ~isDevelopment /\ userId \in DOMAIN remoteProfiles
            THEN [op |-> "dbHelpers.getProfile", id |-> userId, arg |-> Null,
                  data |-> remoteProfiles[userId], error |-> NoError]
            ELSE [op |-> "dbHelpers.getProfile", id |-> userId, arg |-> Null,
                  data |-> Null, error |-> NoError]
  /\ UNCHANGED <<dbProfiles, authUsers, authProfiles, currentUser, now,
                 created, wellnessVars, liveVars, otherVars>>

\* dbHelpers.getProfile(userId)
DbGetProfile(userId) ==
  /\ Call
  /\ IF isDevelopment
     THEN /\ ret' = IF userId \in DOMAIN dbProfiles
                    THEN [op |-> "dbHelpers.getProfile", id |-> userId,
                          arg |-> Null, data |-> dbProfiles[userId],
                          error |-> NoError]
                    ELSE [op |-> "dbHelpers.getProfile", id |-> userId,
                          arg |-> Null, data |-> Null,
                          error |-> "Profile not found"]
          /\ UNCHANGED <<dbProfiles, authUsers, authProfiles, currentUser, now,
                         created, wellnessVars, liveVars, otherVars>>
     ELSE \E outcome \in RemoteOutcomes : LiveGetProfile(userId, outcome)

\* updateProfile that stores the merged record even when none exists
DbUpdateProfileUpsert(userId, updates) ==
  /\ Call
  /\ LET existing == IF userId \in DOMAIN dbProfiles THEN dbProfiles[userId]
                     ELSE [id |-> userId]
         updated  == Spread(Spread(existing, updates), [updated_at |-> now])
     IN  /\ dbProfiles' = MapSet(dbProfiles, userId, updated)
         /\ created' = MapRemove(created, userId)
         /\ ret' = [op |-> "dbHelpers.updateProfile", id |-> userId,
                    arg |-> updates, data |-> updated, error |-> NoError]
         /\ UNCHANGED <<authUsers, authProfiles, currentUser, now,
                        wellnessVars, liveVars, otherVars>>

\* the rows of profiles after the update of the row userId to updated
UpdatedRows(userId, updated) ==
  MapSet(MapRemove(remoteProfiles, userId), updated.id, updated)

\* updateProfile of the live backend: update(updates).eq('id', userId)
\* .select().single(); the trigger update_updated_at_column sets updated_at
LiveUpdateProfile(op, userId, updates, outcome) ==
  /\ remoteLog' = <<"profiles.update">>
  /\ IF /\ outcome = "ok"
        /\ userId \in DOMAIN remoteProfiles
        /\ ProfileUpdateAccepted(userId, updates)
     THEN LET updated == Spread(Spread(remoteProfiles[userId], updates),
                                [updated_at |-> now])
          IN  /\ remoteProfiles' = UpdatedRows(userId, updated)
              /\ created' = MapRemove(created, userId)
              /\ ret' = [op |-> op, id |-> userId, arg |-> updates,
                         data |-> updated, error |-> NoError]
     ELSE /\ ret' = [op |-> op, id |-> userId, arg |-> updates, data |-> Null,
                     error |-> FailureOf(outcome,
                                 IF userId \in DOMAIN remoteProfiles
                                 THEN ConstraintViolation ELSE NoRows)]
          /\ UNCHANGED <<remoteProfiles, created>>
  /\ UNCHANGED <<dbProfiles, authUsers, authProfiles, currentUser, now,
                 wellnessVars, otherVars, isDevelopment, remoteUsers, studentProfiles,
                 companyProfiles, session, subscriptions, delivered>>

\* dbHelpers.updateProfile(userId, updates)
DbUpdateProfile(userId, updates) ==
  /\ Call
  /\ IF isDevelopment
     THEN IF userId \notin DOMAIN dbProfiles
          THEN /\ ret' = [op |-> "dbHelpers.updateProfile", id |-> userId,
                          arg |-> updates, data |-> Null,
                          error |-> "Profile not found"]
               /\ UNCHANGED <<dbProfiles, authUsers, authProfiles, currentUser,
                              now, created, wellnessVars, liveVars, otherVars>>
          ELSE LET existing == dbProfiles[userId]
                   updated  == Spread(Spread(existing, updates),
                                      [updated_at |-> now])
               IN  /\ dbProfiles' = MapSet(dbProfiles, userId, updated)
                   /\ created' = MapRemove(created, userId)
                   /\ ret' = [op |-> "dbHelpers.updateProfile", id |-> userId,
                              arg |-> updates, data |-> updated,
                              error |-> NoError]
                   /\ UNCHANGED <<authUsers, authProfiles, currentUser, now,
                                  wellnessVars, liveVars, otherVars>>
     ELSE \E outcome \in RemoteOutcomes :
             LiveUpdateProfile("dbHelpers.updateProfile", userId, updates,
                               outcome)

\* createMockUser(email, userData) with userId = crypto.randomUUID()
createMockUser(email, userData, userId) ==
  [user |-> [id |-> userId, email |-> email,
             created_at |-> now, updated_at |-> now,
             user_metadata |-> [full_name |-> userData.full_name,
                                role |-> userData.role]],
   profile |-> [id |-> userId, email |-> email,
                full_name |-> userData.full_name, role |-> userData.role,
                created_at |-> now, updated_at |-> now]]

\* v is truthy: the field is present and not the empty string
Truthy(rec, field) == field \in DOMAIN rec /\ rec[field] # ""

\* the Supabase client invokes the callback of every active listener
Notify(event) ==
  [l \in DOMAIN delivered |->
     IF subscriptions[l] = "active" THEN Append(delivered[l], event)
     ELSE delivered[l]]

\* how supabase.auth.signUp ends: as a request, or answered without a user
SignUpOutcomes == RemoteOutcomes \cup {"nouser"}

\* the record signUp inserts into student_profiles
StudentData(userId, userData) ==
  [user_id |-> userId, college_name |-> userData.college_name, degree |-> "",
   graduation_year |-> now, cgpa |-> 0, skills |-> <<>>,
   certifications |-> <<>>, languages |-> <<>>, experience_level |-> "entry",
   preferred_locations |-> <<>>, expected_salary_min |-> 0,
   expected_salary_max |-> 0, job_preferences |-> <<>>,
   created_at |-> now, updated_at |-> now]

\* the record signUp inserts into company_profiles
CompanyData(userId, userData) ==
  [user_id |-> userId, company_name |-> userData.company_name,
   company_description |-> "", industry |-> "", company_size |-> "startup",
   headquarters_location |-> "", verification_status |-> "pending",
   created_at |-> now, updated_at |-> now]

\* signUp that gives up when the insert into profiles returned an error
RoleInsertReachedIfStored(identityCreated, o2) ==
  identityCreated /\ o2 = "ok"

\* signUp goes on to the role-specific profile when a user was returned and
\* the awaited insert into profiles did not reject; its error is only logged
RoleInsertReached(identityCreated, o2) ==
  identityCreated /\ o2 # "throw"

\* signUp of the live backend; o1, o2 and o3 are how supabase.auth.signUp, the
\* insert into profiles and the insert into student_profiles or
\* company_profiles end. The project signs a new identity in at once.
LiveSignUp(email, userData, newId, o1, o2, o3) ==
  LET user == [id |-> newId, email |-> email,
               created_at |-> now, updated_at |-> now,
               user_metadata |-> [full_name |-> userData.full_name,
                                  role |-> userData.role]]
      authData == [user |-> user, session |-> [user |-> user]]
      identityCreated == o1 = "ok" /\ email \notin DOMAIN remoteUsers
      profileData == [id |-> newId, email |-> email,
                      full_name |-> userData.full_name, role |-> userData.role,
                      created_at |-> now, updated_at |-> now]
      \* the new id references the new identity and is no key of profiles
      profileStored ==
        /\ identityCreated
        /\ o2 = "ok"
        /\ \A k \in DOMAIN remoteProfiles : remoteProfiles[k].email # email
      wantsStudent ==
        userData.role = "student" /\ Truthy(userData, "college_name")
      wantsCompany ==
        userData.role = "company" /\ Truthy(userData, "company_name")
      roleReached == RoleInsertReached(identityCreated, o2)
      \* user_id references profiles(id)
      roleStored == roleReached /\ o3 = "ok" /\ profileStored
      thrown ==
        \/ o1 = "throw"
        \/ identityCreated /\ o2 = "throw"
        \/ roleReached /\ (wantsStudent \/ wantsCompany) /\ o3 = "throw"
      error ==
        IF o1 = "throw" THEN ThrownFailure
        ELSE IF o1 = "error" THEN RemoteError
        ELSE IF o1 = "nouser" THEN "User creation failed"
        ELSE IF email \in DOMAIN remoteUsers THEN "User already registered"
        ELSE IF thrown THEN ThrownFailure
        ELSE NoError
  IN  /\ IF identityCreated THEN newId \in FreshIds ELSE newId = 1
      \* an outcome is drawn only for a request that is sent
      /\ ~identityCreated => o2 = "ok"
      /\ ~(roleReached /\ (wantsStudent \/ wantsCompany)) => o3 = "ok"
      /\ remoteLog' =
           <<"auth.signUp">>
           \o (IF identityCreated THEN <<"profiles.insert">> ELSE <<>>)
           \o (IF roleReached /\ wantsStudent
               THEN <<"student_profiles.insert">> ELSE <<>>)
           \o (IF roleReached /\ wantsCompany
               THEN <<"company_profiles.insert">> ELSE <<>>)
      /\ remoteUsers' = IF identityCreated
                        THEN MapSet(remoteUsers, email, user) ELSE remoteUsers
      /\ session' = IF identityCreated THEN user ELSE session
      /\ delivered' = IF identityCreated THEN Notify("SIGNED_IN") ELSE delivered
      /\ remoteProfiles' = IF profileStored
                           THEN MapSet(remoteProfiles, newId, profileData)
                           ELSE remoteProfiles
      /\ studentProfiles' = IF roleStored /\ wantsStudent
                            THEN MapSet(studentProfiles, newId,
                                        StudentData(newId, userData))
                            ELSE studentProfiles
      /\ companyProfiles' = IF roleStored /\ wantsCompany
                            THEN MapSet(companyProfiles, newId,
                                        CompanyData(newId, userData))
                            ELSE companyProfiles
      /\ ret' = [op |-> "authService.signUp", id |-> email, arg |-> userData,
                 data |-> IF error = NoError THEN authData ELSE Null,
                 error |-> error]
      /\ UNCHANGED <<dbProfiles, authUsers, authProfiles, currentUser, now,
                     created, wellnessVars, otherVars, isDevelopment, subscriptions>>

\* signUp that registers the email again: no check of mockStorage.users, and
\* the inserts are sent although supabase.auth.signUp returned an error
SignUpNoDuplicateCheck(email, userData, newId) ==
  /\ Call
  /\ LET made == createMockUser(email, userData, newId)
     IN  /\ newId \in FreshIds
         /\ ret' = [op |-> "authService.signUp", id |-> email,
                    arg |-> userData,
                    data |-> [user |-> made.user,
                              session |-> [user |-> made.user]],
                    error |-> NoError]
         /\ IF isDevelopment
            THEN /\ authUsers' = MapSet(authUsers, email,
                                        [user |-> made.user, password |-> "",
                                         profile |-> made.profile])
                 /\ authProfiles' = MapSet(authProfiles, newId, made.profile)
                 /\ currentUser' = made.user
                 /\ UNCHANGED <<dbProfiles, now, created, wellnessVars,
                                liveVars, otherVars>>
            ELSE /\ remoteLog' = <<"auth.signUp", "profiles.insert">>
                 /\ remoteUsers' = MapSet(remoteUsers, email, made.user)
                 /\ remoteProfiles' = MapSet(remoteProfiles, newId,
                                             made.profile)
                 /\ session' = made.user
                 /\ delivered' = Notify("SIGNED_IN")
                 /\ UNCHANGED <<dbProfiles, authUsers, authProfiles,
                                currentUser, now, created, wellnessVars, otherVars,
                                isDevelopment, studentProfiles,
                                companyProfiles, subscriptions>>

\* authService.signUp(email, password, userData); the password is not used
\* by the mock backend, where the role-specific record is only written to
\* the console
SignUp(email, userData, newId) ==
  /\ Call
  /\ IF isDevelopment
     THEN IF email \in DOMAIN authUsers
          THEN /\ ret' = [op |-> "authService.signUp", id |-> email,
                          arg |-> userData, data |-> Null,
                          error |-> "User already registered"]
               /\ UNCHANGED <<dbProfiles, authUsers, authProfiles, currentUser,
                              now, created, wellnessVars, liveVars, otherVars>>
          ELSE LET made == createMockUser(email, userData, newId)
               IN  /\ newId \in FreshIds
                   /\ authUsers' = MapSet(authUsers, email,
                                          [user |-> made.user, password |-> "",
                                           profile |-> made.profile])
                   /\ authProfiles' = MapSet(authProfiles, newId, made.profile)
                   /\ currentUser' = made.user
                   /\ ret' = [op |-> "authService.signUp", id |-> email,
                              arg |-> userData,
                              data |-> [user |-> made.user,
                                        session |-> [user |-> made.user]],
                              error |-> NoError]
                   /\ UNCHANGED <<dbProfiles, now, created, wellnessVars,
                                  liveVars, otherVars>>
     ELSE \E o1 \in SignUpOutcomes, o2 \in RemoteOutcomes,
             o3 \in RemoteOutcomes :
             LiveSignUp(email, userData, newId, o1, o2, o3)

\* signIn of the live backend: supabase.auth.signInWithPassword
LiveSignIn(email, outcome) ==
  /\ remoteLog' = <<"auth.signInWithPassword">>
  /\ IF outcome = "ok" /\ email \in DOMAIN remoteUsers
     THEN LET user == remoteUsers[email]
          IN  /\ session' = user
              /\ delivered' = Notify("SIGNED_IN")
              /\ ret' = [op |-> "authService.signIn", id |-> email,
                         arg |-> Null,
                         data |-> [user |-> user, session |-> [user |-> user]],
                         error |-> NoError]
     ELSE /\ ret' = [op |-> "authService.signIn", id |-> email, arg |-> Null,
                     data |-> Null,
                     error |-> FailureOf(outcome, "Invalid login credentials")]
          /\ UNCHANGED <<session, delivered>>
  /\ UNCHANGED <<dbProfiles, authUsers, authProfiles, currentUser, now,
                 created, wellnessVars, otherVars, isDevelopment, remoteUsers,
                 remoteProfiles, studentProfiles, companyProfiles,
                 subscriptions>>

\* authService.signIn(email, password); the mock backend does not check the
\* password
SignIn(email) ==
  /\ Call
  /\ IF isDevelopment
     THEN IF email \notin DOMAIN authUsers
          THEN /\ ret' = [op |-> "authService.signIn", id |-> email,
                          arg |-> Null, data |-> Null,
                          error |-> "Invalid login credentials"]
               /\ UNCHANGED <<dbProfiles, authUsers, authProfiles, currentUser,
                              now, created, wellnessVars, liveVars, otherVars>>
          ELSE LET userData == authUsers[email]
               IN  /\ currentUser' = userData.user
                   /\ ret' = [op |-> "authService.signIn", id |-> email,
                              arg |-> Null,
                              data |-> [user |-> userData.user,
                                        session |-> [user |-> userData.user]],
                              error |-> NoError]
                   /\ UNCHANGED <<dbProfiles, authUsers, authProfiles, now,
                                  created, wellnessVars, liveVars, otherVars>>
     ELSE \E outcome \in RemoteOutcomes : LiveSignIn(email, outcome)

\* signOut of the live backend: supabase.auth.signOut
LiveSignOut(outcome) ==
  /\ remoteLog' = <<"auth.signOut">>
  /\ IF outcome = "ok"
     THEN /\ session' = Null
          /\ delivered' = Notify("SIGNED_OUT")
     ELSE UNCHANGED <<session, delivered>>
  /\ ret' = [op |-> "authService.signOut", id |-> Null, arg |-> Null,
             data |-> Null, error |-> FailureOf(outcome, NoError)]
  /\ UNCHANGED <<dbProfiles, authUsers, authProfiles, currentUser, now,
                 created, wellnessVars, otherVars, isDevelopment, remoteUsers,
                 remoteProfiles, studentProfiles, companyProfiles,
                 subscriptions>>

\* signOut that leaves mockStorage.currentUser as it is
SignOutKeepsUser ==
  /\ Call
  /\ IF isDevelopment
     THEN /\ ret' = [op |-> "authService.signOut", id |-> Null, arg |-> Null,
                     data |-> Null, error |-> NoError]
          /\ UNCHANGED <<dbProfiles, authUsers, authProfiles, currentUser, now,
                         created, wellnessVars, liveVars, otherVars>>
     ELSE \E outcome \in RemoteOutcomes : LiveSignOut(outcome)

\* authService.signOut()
SignOut ==
  /\ Call
  /\ IF isDevelopment
     THEN /\ currentUser' = Null
          /\ ret' = [op |-> "authService.signOut", id |-> Null, arg |-> Null,
                     data |-> Null, error |-> NoError]
          /\ UNCHANGED <<dbProfiles, authUsers, authProfiles, now, created,
                         wellnessVars, liveVars, otherVars>>
     ELSE \E outcome \in RemoteOutcomes : LiveSignOut(outcome)

\* getCurrentUser of the live backend: supabase.auth.getUser; an error and
\* a thrown failure both give null
LiveGetCurrentUser(outcome) ==
  /\ remoteLog' = <<"auth.getUser">>
  /\ ret' = [op |-> "authService.getCurrentUser", id |-> Null, arg |-> Null,
             data |-> IF outcome = "ok" THEN session ELSE Null,
             error |-> NoError]
  /\ UNCHANGED <<dbProfiles, authUsers, authProfiles, currentUser, now,
                 created, wellnessVars, otherVars, isDevelopment, remoteUsers,
                 remoteProfiles, studentProfiles, companyProfiles, session,
                 subscriptions, delivered>>

\* authService.getCurrentUser()
GetCurrentUser ==
  /\ Call
  /\ IF isDevelopment
     THEN /\ ret' = [op |-> "authService.getCurrentUser", id |-> Null,
                     arg |-> Null, data |-> currentUser, error |-> NoError]
          /\ UNCHANGED <<dbProfiles, authUsers, authProfiles, currentUser, now,
                         created, wellnessVars, liveVars, otherVars>>
     ELSE \E outcome \in RemoteOutcomes : LiveGetCurrentUser(outcome)

\* authService.updateProfile(userId, updates)
AuthUpdateProfile(userId, updates) ==
  /\ Call
  /\ IF isDevelopment
     THEN IF userId \notin DOMAIN authProfiles
          THEN /\ ret' = [op |-> "authService.updateProfile", id |-> userId,
                          arg |-> updates, data |-> Null,
                          error |-> "Profile not found"]
               /\ UNCHANGED <<dbProfiles, authUsers, authProfiles, currentUser,
                              now, created, wellnessVars, liveVars, otherVars>>
          ELSE LET existing == authProfiles[userId]
                   updated  == Spread(Spread(existing, updates),
                                      [updated_at |-> now])
               IN  /\ authProfiles' = MapSet(authProfiles, userId, updated)
                   /\ ret' = [op |-> "authService.updateProfile",
                              id |-> userId, arg |-> updates,
                              data |-> updated, error |-> NoError]
                   /\ UNCHANGED <<dbProfiles, authUsers, currentUser, now,
                                  created, wellnessVars, liveVars, otherVars>>
     ELSE \E outcome \in RemoteOutcomes :
             LiveUpdateProfile("authService.updateProfile", userId, updates,
                               outcome)

\* authService.onAuthStateChange(callback) for the callback of listener l:
\* the live backend registers the callback with the Supabase client, the mock
\* backend drops it and returns a subscription whose unsubscribe does nothing
OnAuthStateChange(l) ==
  /\ Call
  /\ l \notin DOMAIN subscriptions
  /\ subscriptions' = MapSet(subscriptions, l, "active")
  /\ delivered' = MapSet(delivered, l, <<>>)
  /\ remoteLog' = <<>>
  /\ ret' = [op |-> "authService.onAuthStateChange", id |-> l, arg |-> Null,
             data |-> [subscription |-> l], error |-> NoError]
  /\ UNCHANGED <<dbProfiles, authUsers, authProfiles, currentUser, now,
                 created, wellnessVars, otherVars, isDevelopment, remoteUsers,
                 remoteProfiles, studentProfiles, companyProfiles, session>>

\* subscription.unsubscribe() of listener l, a first time or again
Unsubscribe(l) ==
  /\ Call
  /\ l \in DOMAIN subscriptions
  /\ subscriptions' = MapSet(subscriptions, l, "unsubscribed")
  /\ remoteLog' = <<>>
  /\ ret' = [op |-> "subscription.unsubscribe", id |-> l, arg |-> Null,
             data |-> Null, error |-> NoError]
  /\ UNCHANGED <<dbProfiles, authUsers, authProfiles, currentUser, now,
                 created, wellnessVars, otherVars, isDevelopment, remoteUsers,
                 remoteProfiles, studentProfiles, companyProfiles, session,
                 delivered>>

Next ==
  \/ Tick
  \/ \E userData \in CreateInputs, newId \in Ids :
        DbCreateProfile(userData, newId)
  \/ \E userId \in Ids : DbGetProfile(userId)
  \/ \E userId \in Ids, updates \in UpdateInputs :
        DbUpdateProfile(userId, updates)
  \/ \E email \in Emails, userData \in SignUpInputs, newId \in Ids :
        SignUp(email, userData, newId)
  \/ \E email \in Emails : SignIn(email)
  \/ SignOut
  \/ GetCurrentUser
  \/ \E userId \in Ids, updates \in UpdateInputs :
        AuthUpdateProfile(userId, updates)

Spec == Init /\ [][Next]_vars

\* ---------------------------------------------------------------------
\* Both backends: VITE_SUPABASE_URL is configured (live) or not (mock)
\* ---------------------------------------------------------------------
MaxListeners == 1   \* callbacks registered with onAuthStateChange
Listeners == 1..MaxListeners

\* the arguments callers pass to signUp, with and without the name of the
\* college or company
SignUpData ==
  SignUpInputs
  \cup { [full_name |-> "Cy", role |-> "admin", college_name |-> "MIT",
          company_name |-> "Acme"],
         [full_name |-> "Dee", role |-> "student", college_name |-> ""],
         [full_name |-> "Eve", role |-> "company"] }

InitBackends ==
  /\ InitWellness
  /\ InitStores
  /\ isDevelopment \in BOOLEAN
  /\ InitRemote
  /\ InitProvider
  /\ openaiKey = ""
  /\ hfKey = ""
  /\ InitAdvisor
  /\ InitSchema
  /\ InitForm

NextBackends ==
  \/ \E userData \in CreateInputs, newId \in Ids :
        DbCreateProfile(userData, newId)
  \/ \E userId \in Ids : DbGetProfile(userId)
  \/ \E userId \in Ids, updates \in UpdateInputs :
        DbUpdateProfile(userId, updates)
  \/ \E email \in Emails, userData \in SignUpData, newId \in Ids :
        SignUp(email, userData, newId)
  \/ \E email \in Emails : SignIn(email)
  \/ SignOut
  \/ GetCurrentUser
  \/ \E userId \in Ids, updates \in UpdateInputs :
        AuthUpdateProfile(userId, updates)
  \/ \E l \in Listeners : OnAuthStateChange(l)
  \/ \E l \in Listeners : Unsubscribe(l)

SpecBackends == InitBackends /\ [][NextBackends]_vars

\* ---------------------------------------------------------------------
\* AuthProvider: the effect, the auth-change callback, the context functions
\* ---------------------------------------------------------------------
MaxActivity == 2   \* auth-change events delivered by the Supabase client plus
                   \* calls of signIn / signUp / signOut / updateProfile /
                   \* clearError

nonProviderVars == <<wellnessVars, storeVars, liveVars, advisorVars, schemaVars,
                     formVars>>

\* session?.user of a session: a user, or Null for no session
SessionUsers == {Null, [id |-> 1], [id |-> 2]}

\* the role the user with this id signed up with
RoleOf(userId) == IF userId = 1 THEN "student" ELSE "company"

\* the row of profiles with this id
ProfileOf(userId) ==
  [id |-> userId, full_name |-> "Ann", role |-> RoleOf(userId)]

\* how the query of fetchProfile ends: a row, the error PGRST116 of a missing
\* row, another error value, a rejected promise
FetchOutcomes == {"ok", "norow", "error", "throw"}

\* the setters fetchProfile(userId) calls once its query has ended
fetchProfile(userId, outcome) ==
  IF outcome = "ok" THEN [profile |-> ProfileOf(userId)]
  ELSE IF outcome = "norow" THEN EmptyMap
  ELSE IF outcome = "error" THEN [error |-> "Failed to load profile"]
  ELSE [error |-> "Failed to load user profile"]

\* the step calls the setters of sets, in a function named fn
Render(fn, sets) ==
  /\ auth' = Spread(auth, sets)
  /\ writes' = DOMAIN sets
  /\ lastStep' = fn

\* s without its i-th element
RemoveAt(s, i) == SubSeq(s, 1, i - 1) \o SubSeq(s, i + 1, Len(s))

\* getInitialSession resumes after await supabase.auth.getSession() and runs
\* to its end or to the await of fetchProfile
GetSessionResolved(outcome, sessionUser) ==
  /\ initPc = "getSession"
  /\ outcome # "ok" => sessionUser = Null
  /\ LET fetches == outcome = "ok" /\ mounted /\ sessionUser # Null
         body == IF outcome = "error"
                 THEN [error |-> "Failed to load session"]
                 ELSE IF ~mounted THEN EmptyMap
                 ELSE IF outcome = "throw"
                 THEN [error |-> "Failed to initialize authentication"]
                 ELSE [user |-> sessionUser]
         sets == IF ~fetches /\ mounted
                 THEN Spread(body, [loading |-> FALSE]) ELSE body
     IN  /\ Render("getInitialSession", sets)
         /\ initPc' = IF fetches THEN "fetchProfile" ELSE "done"
         /\ initUserId' = IF fetches THEN sessionUser.id ELSE initUserId
  /\ UNCHANGED <<mounted, subscription, cbFetches, inflight, events, uiCalls,
                 nonProviderVars>>

\* the fetchProfile of getInitialSession ends, then the finally block runs
InitFetchResolved(outcome) ==
  /\ initPc = "fetchProfile"
  /\ LET body == fetchProfile(initUserId, outcome)
         sets == IF mounted THEN Spread(body, [loading |-> FALSE]) ELSE body
     IN  Render("getInitialSession", sets)
  /\ initPc' = "done"
  /\ UNCHANGED <<mounted, subscription, initUserId, cbFetches, inflight,
                 events, uiCalls, nonProviderVars>>

\* the Supabase client invokes the subscribed callback with a session; the
\* callback runs to its end or to the await of fetchProfile
AuthStateChange(sessionUser) ==
  /\ subscription = "active"
  /\ events + uiCalls < MaxActivity
  /\ events' = events + 1
  /\ IF ~mounted
     THEN /\ Render("onAuthStateChange", EmptyMap)
          /\ UNCHANGED cbFetches
     ELSE IF sessionUser # Null
     THEN /\ Render("onAuthStateChange",
                    [user |-> sessionUser, error |-> NoError])
          /\ cbFetches' = Append(cbFetches, sessionUser.id)
     ELSE /\ Render("onAuthStateChange",
                    [user |-> Null, error |-> NoError, profile |-> Null,
                     loading |-> FALSE])
          /\ UNCHANGED cbFetches
  /\ UNCHANGED <<mounted, subscription, initPc, initUserId, inflight, uiCalls,
                 nonProviderVars>>

\* the fetchProfile of the i-th suspended callback ends, then the finally
\* block of the callback runs
CallbackFetchResolved(i, outcome) ==
  /\ i \in 1..Len(cbFetches)
  /\ Render("onAuthStateChange",
            Spread(fetchProfile(cbFetches[i], outcome), [loading |-> FALSE]))
  /\ cbFetches' = RemoveAt(cbFetches, i)
  /\ UNCHANGED <<mounted, subscription, initPc, initUserId, inflight, events,
                 uiCalls, nonProviderVars>>

\* the cleanup of the effect: mounted = false, subscription.unsubscribe()
Unmount ==
  /\ mounted
  /\ mounted' = FALSE
  /\ subscription' = "unsubscribed"
  /\ writes' = {}
  /\ lastStep' = "cleanup"
  /\ UNCHANGED <<auth, initPc, initUserId, cbFetches, inflight, events,
                 uiCalls, nonProviderVars>>

\* a consumer of the context calls one of its functions
UiCall ==
  /\ mounted
  /\ events + uiCalls < MaxActivity
  /\ uiCalls' = uiCalls + 1

\* the call fn suspends at its await; user and profile are those of the
\* render the function was created in
Suspend(fn, updates) ==
  inflight' = Append(inflight, [fn |-> fn, user |-> auth.user,
                                profile |-> auth.profile, updates |-> updates])

\* how a function of authService ends: each catches what is thrown and
\* returns { data, error }
AuthOutcomes == {"ok", "error"}

\* signIn, signUp and signOut of the context up to their await
ContextCall(fn) ==
  /\ Render(fn, [loading |-> TRUE, error |-> NoError])
  /\ Suspend(fn, EmptyMap)
  /\ UNCHANGED <<mounted, subscription, initPc, initUserId, cbFetches, events,
                 nonProviderVars>>

\* the i-th suspended call is fn and resumes with these setters
ContextResolved(fn, i, sets) ==
  /\ i \in 1..Len(inflight)
  /\ inflight[i].fn = fn
  /\ Render(fn, sets)
  /\ inflight' = RemoveAt(inflight, i)
  /\ UNCHANGED <<mounted, subscription, initPc, initUserId, cbFetches, events,
                 uiCalls, nonProviderVars>>

\* signIn of the context
ProviderSignIn ==
  /\ UiCall
  /\ ContextCall("signIn")

\* signIn that takes the user from the result: setUser(result.data.user)
ProviderSignInSetsUser(i, outcome) ==
  /\ i \in 1..Len(inflight)
  /\ ContextResolved("signIn", i,
       IF outcome = "error"
       THEN [error |-> RemoteError, loading |-> FALSE]
       ELSE [user |-> [id |-> 1], loading |-> FALSE])

\* signIn resumes after await authService.signIn(email, password)
ProviderSignInResolved(i, outcome) ==
  /\ i \in 1..Len(inflight)
  /\ ContextResolved("signIn", i,
       IF outcome = "error"
       THEN [error |-> RemoteError, loading |-> FALSE]
       ELSE [loading |-> FALSE])

\* signUp of the context
ProviderSignUp ==
  /\ UiCall
  /\ ContextCall("signUp")

\* signUp resumes after await authService.signUp(email, password, userData)
ProviderSignUpResolved(i, outcome) ==
  /\ i \in 1..Len(inflight)
  /\ ContextResolved("signUp", i,
       IF outcome = "error"
       THEN [error |-> RemoteError, loading |-> FALSE]
       ELSE [loading |-> FALSE])

\* signOut of the context
ProviderSignOut ==
  /\ UiCall
  /\ ContextCall("signOut")

\* signOut resumes after await authService.signOut()
ProviderSignOutResolved(i, outcome) ==
  /\ i \in 1..Len(inflight)
  /\ ContextResolved("signOut", i,
       IF outcome = "error"
       THEN [error |-> "Sign out failed", loading |-> FALSE]
       ELSE [user |-> Null, profile |-> Null, loading |-> FALSE])

\* updateProfile(updates) of the context up to its return or its await
ProviderUpdateProfile(updates) ==
  /\ UiCall
  /\ IF auth.user = Null
     THEN /\ Render("updateProfile", [error |-> "No user logged in"])
          /\ UNCHANGED inflight
     ELSE /\ Render("updateProfile", [error |-> NoError])
          /\ Suspend("updateProfile", updates)
  /\ UNCHANGED <<mounted, subscription, initPc, initUserId, cbFetches, events,
                 nonProviderVars>>

\* updateProfile resumes after await authService.updateProfile(user.id,
\* updates): setProfile({ ...profile, ...updates })
ProviderUpdateProfileResolved(i, outcome) ==
  /\ i \in 1..Len(inflight)
  /\ ContextResolved("updateProfile", i,
       IF outcome = "error" THEN [error |-> "Failed to update profile"]
       ELSE [profile |-> IF inflight[i].profile = Null THEN inflight[i].updates
                         ELSE Spread(inflight[i].profile, inflight[i].updates)])

\* clearError of the context
ClearError ==
  /\ UiCall
  /\ Render("clearError", [error |-> NoError])
  /\ UNCHANGED <<mounted, subscription, initPc, initUserId, cbFetches,
                 inflight, events, nonProviderVars>>

\* the allowedRoles of the routes /student, /company and /admin
RouteRoles == {[roles |-> {r}] : r \in {"student", "company", "admin"}}

\* what ProtectedRoute renders in the current context; allowedRoles is an
\* array of roles, or Null for a route without the attribute. profile.role of a
\* profile without a role is undefined, which no allowedRoles includes
ProtectedRoute(allowedRoles) ==
  IF auth.loading THEN "spinner"
  ELSE IF auth.user = Null THEN "Navigate /login"
  ELSE IF /\ allowedRoles # Null
          /\ auth.profile # Null
          /\ ~("role" \in DOMAIN auth.profile
                /\ auth.profile.role \in allowedRoles.roles)
       THEN "Navigate /unauthorized"
  ELSE "children"

NextProvider ==
  \/ \E outcome \in RemoteOutcomes, sessionUser \in SessionUsers :
        GetSessionResolved(outcome, sessionUser)
  \/ \E outcome \in FetchOutcomes : InitFetchResolved(outcome)
  \/ \E sessionUser \in SessionUsers : AuthStateChange(sessionUser)
  \/ \E i \in 1..MaxActivity, outcome \in FetchOutcomes :
        CallbackFetchResolved(i, outcome)
  \/ Unmount
  \/ ProviderSignIn
  \/ \E i \in 1..MaxActivity, outcome \in AuthOutcomes :
        ProviderSignInResolved(i, outcome)
  \/ ProviderSignUp
  \/ \E i \in 1..MaxActivity, outcome \in AuthOutcomes :
        ProviderSignUpResolved(i, outcome)
  \/ ProviderSignOut
  \/ \E i \in 1..MaxActivity, outcome \in AuthOutcomes :
        ProviderSignOutResolved(i, outcome)
  \/ \E updates \in UpdateInputs : ProviderUpdateProfile(updates)
  \/ \E i \in 1..MaxActivity, outcome \in AuthOutcomes :
        ProviderUpdateProfileResolved(i, outcome)
  \/ ClearError

SpecProvider == Init /\ [][NextProvider]_vars

\* ---------------------------------------------------------------------
\* Texts and JSON values of the AI services (ai-services.ts)
\*
\* A text the outside world produced is a sequence of characters; a string
\* literal of the code is kept whole.  JSON values are tagged records.
\* ---------------------------------------------------------------------
Text(chars) == [chars |-> chars]
Literal(str) == [lit |-> str]

JUndefined == [t |-> "undefined"]
JNull == [t |-> "null"]
NaN == [t |-> "NaN"]
JBool(b) == [t |-> "bool", b |-> b]
JNum(n) == [t |-> "num", n |-> n]
JStr(chars) == [t |-> "str", s |-> chars]
JArr(items) == [t |-> "arr", items |-> items]
JObj(members) == [t |-> "obj", members |-> members]
Member(key, value) == [key |-> key, value |-> value]

Digits == <<"0", "1", "2", "3", "4", "5", "6", "7", "8", "9">>
IsDigit(c) == \E k \in 1..10 : Digits[k] = c
DigitValue(c) == (CHOOSE k \in 1..10 : Digits[k] = c) - 1
IsSpace(c) == c \in {" ", "\n", "\t", "\r"}

SyntaxError == [ok |-> FALSE]
Parsed(value, next) == [ok |-> TRUE, value |-> value, next |-> next]

RECURSIVE SkipSpace(_, _)
SkipSpace(s, i) ==
  IF i <= Len(s) /\ IsSpace(s[i]) THEN SkipSpace(s, i + 1) ELSE i

RECURSIVE ParseDigits(_, _, _)
ParseDigits(s, i, n) ==
  IF i <= Len(s) /\ IsDigit(s[i])
  THEN ParseDigits(s, i + 1, n * 10 + DigitValue(s[i]))
  ELSE [n |-> n, next |-> i]

\* an integer: an optional minus, then 0 or a digit string without a
\* leading zero (the texts of the model hold no fraction and no exponent)
ParseNumber(s, i) ==
  LET neg == s[i] = "-"
      j   == IF neg THEN i + 1 ELSE i
  IN  IF j > Len(s) \/ ~IsDigit(s[j]) THEN SyntaxError
      ELSE IF s[j] = "0" THEN Parsed(JNum(0), j + 1)
      ELSE LET d == ParseDigits(s, j, 0)
           IN  Parsed(JNum(IF neg THEN 0 - d.n ELSE d.n), d.next)

\* the position of the closing quote of the string that starts at i, 0 when
\* there is none (the texts of the model hold no escape)
RECURSIVE StringEnd(_, _)
StringEnd(s, i) ==
  IF i > Len(s) THEN 0
  ELSE IF s[i] = "\"" THEN i
  ELSE IF s[i] \in {"\n", "\t", "\r"} THEN 0
  ELSE StringEnd(s, i + 1)

ParseString(s, i) ==
  LET e == StringEnd(s, i)
  IN  IF e = 0 THEN SyntaxError ELSE Parsed(JStr(SubSeq(s, i, e - 1)), e + 1)

ParseWord(s, i, word, value) ==
  IF i + Len(word) - 1 <= Len(s) /\ SubSeq(s, i, i + Len(word) - 1) = word
  THEN Parsed(value, i + Len(word))
  ELSE SyntaxError

RECURSIVE ParseValue(_, _)
RECURSIVE ParseElements(_, _, _)
RECURSIVE ParseMembers(_, _, _)

ParseValue(s, i0) ==
  LET i == SkipSpace(s, i0)
  IN  IF i > Len(s) THEN SyntaxError
      ELSE IF s[i] = "{"
      THEN LET j == SkipSpace(s, i + 1)
           IN  IF j <= Len(s) /\ s[j] = "}" THEN Parsed(JObj(<<>>), j + 1)
               ELSE ParseMembers(s, j, <<>>)
      ELSE IF s[i] = "["
      THEN LET j == SkipSpace(s, i + 1)
           IN  IF j <= Len(s) /\ s[j] = "]" THEN Parsed(JArr(<<>>), j + 1)
               ELSE ParseElements(s, j, <<>>)
      ELSE IF s[i] = "\"" THEN ParseString(s, i + 1)
      ELSE IF s[i] = "-" \/ IsDigit(s[i]) THEN ParseNumber(s, i)
      ELSE IF s[i] = "t" THEN ParseWord(s, i, <<"t", "r", "u", "e">>, JBool(TRUE))
      ELSE IF s[i] = "f"
      THEN ParseWord(s, i, <<"f", "a", "l", "s", "e">>, JBool(FALSE))
      ELSE IF s[i] = "n" THEN ParseWord(s, i, <<"n", "u", "l", "l">>, JNull)
      ELSE SyntaxError

ParseElements(s, i, items) ==
  LET v == ParseValue(s, i)
  IN  IF ~v.ok THEN SyntaxError
      ELSE LET j == SkipSpace(s, v.next)
           IN  IF j > Len(s) THEN SyntaxError
               ELSE IF s[j] = ","
               THEN ParseElements(s, j + 1, Append(items, v.value))
               ELSE IF s[j] = "]"
               THEN Parsed(JArr(Append(items, v.value)), j + 1)
               ELSE SyntaxError

ParseMembers(s, i0, members) ==
  LET i == SkipSpace(s, i0)
  IN  IF i > Len(s) \/ s[i] # "\"" THEN SyntaxError
      ELSE LET k == ParseString(s, i + 1)
           IN  IF ~k.ok THEN SyntaxError
               ELSE LET c == SkipSpace(s, k.next)
                    IN  IF c > Len(s) \/ s[c] # ":" THEN SyntaxError
                        ELSE LET v == ParseValue(s, c + 1)
                             IN  IF ~v.ok THEN SyntaxError
                                 ELSE LET j == SkipSpace(s, v.next)
                                          m == Append(members,
                                                      Member(k.value.s, v.value))
                                      IN  IF j > Len(s) THEN SyntaxError
                                          ELSE IF s[j] = ","
                                          THEN ParseMembers(s, j + 1, m)
                                          ELSE IF s[j] = "}"
                                          THEN Parsed(JObj(m), j + 1)
                                          ELSE SyntaxError

\* JSON.parse(text): the value, or a SyntaxError
JSONParse(s) ==
  LET v == ParseValue(s, 1)
  IN  IF v.ok /\ SkipSpace(s, v.next) > Len(s) THEN v ELSE SyntaxError

\* value[key]: the last member of that name wins, anything that is not an
\* object has no such property
GetField(value, key) ==
  IF value.t # "obj" THEN JUndefined
  ELSE LET at == {i \in 1..Len(value.members) : value.members[i].key = key}
       IN  IF at = {} THEN JUndefined
           ELSE value.members[CHOOSE i \in at : \A j \in at : j <= i].value

\* a value that || replaces by its right operand
Falsy(value) ==
  \/ value.t \in {"undefined", "null", "NaN"}
  \/ value.t = "bool" /\ ~value.b
  \/ value.t = "num" /\ value.n = 0
  \/ value.t = "str" /\ value.s = <<>>

\* the decimal digits of a natural number
RECURSIVE NatChars(_)
NatChars(n) ==
  IF n < 10 THEN <<Digits[n + 1]>>
  ELSE NatChars(n \div 10) \o <<Digits[(n % 10) + 1]>>

\* Number(string) for strings that hold an integer, and NaN for the others
StringToNumber(s) ==
  LET i == SkipSpace(s, 1)
  IN  IF i > Len(s) THEN JNum(0)
      ELSE LET signed == s[i] \in {"-", "+"}
               j == IF signed THEN i + 1 ELSE i
               d == ParseDigits(s, j, 0)
           IN  IF d.next = j \/ SkipSpace(s, d.next) <= Len(s) THEN NaN
               ELSE JNum(IF s[i] = "-" THEN 0 - d.n ELSE d.n)

\* ToNumber(value), the conversion Math.min and Math.max apply
ToNumber(value) ==
  CASE value.t = "num" -> value
    [] value.t = "bool" -> JNum(IF value.b THEN 1 ELSE 0)
    [] value.t = "null" -> JNum(0)
    [] value.t = "str" -> StringToNumber(value.s)
    [] value.t = "arr" ->
         IF value.items = <<>> THEN JNum(0)
         ELSE IF Len(value.items) = 1 /\ value.items[1].t = "num"
         THEN value.items[1]
         ELSE IF Len(value.items) = 1 /\ value.items[1].t = "str"
         THEN StringToNumber(value.items[1].s)
         ELSE IF Len(value.items) = 1 /\ value.items[1].t = "null"
         THEN JNum(0)
         ELSE NaN
    [] OTHER -> NaN

\* Math.max(0, Math.min(100, value))
ClampScore(value) ==
  LET x == ToNumber(value)
  IN  IF x.t = "NaN" THEN NaN ELSE JNum(Max(0, Min(100, x.n)))

\* JSON.stringify(value), without indentation
RECURSIVE JSONStringify(_)
RECURSIVE StringifyItems(_, _)
RECURSIVE StringifyMembers(_, _)

JSONStringify(value) ==
  CASE value.t = "num" ->
         IF value.n < 0 THEN <<"-">> \o NatChars(0 - value.n)
         ELSE NatChars(value.n)
    [] value.t = "str" -> <<"\"">> \o value.s \o <<"\"">>
    [] value.t = "bool" ->
         IF value.b THEN <<"t", "r", "u", "e">> ELSE <<"f", "a", "l", "s", "e">>
    [] value.t = "arr" -> <<"[">> \o StringifyItems(value.items, 1) \o <<"]">>
    [] value.t = "obj" ->
         <<"{">> \o StringifyMembers(value.members, 1) \o <<"}">>
    [] OTHER -> <<"n", "u", "l", "l">>

StringifyItems(items, i) ==
  IF i > Len(items) THEN <<>>
  ELSE (IF i > 1 THEN <<",">> ELSE <<>>)
       \o JSONStringify(items[i]) \o StringifyItems(items, i + 1)

StringifyMembers(members, i) ==
  IF i > Len(members) THEN <<>>
  ELSE (IF i > 1 THEN <<",">> ELSE <<>>)
       \o <<"\"">> \o members[i].key \o <<"\"", ":">>
       \o JSONStringify(members[i].value)
       \o StringifyMembers(members, i + 1)

\* ---------------------------------------------------------------------
\* What the outside world answers to a request of a service
\* ---------------------------------------------------------------------
NoData == [none |-> TRUE]

\* fetch() rejects
NetworkFailure == [kind |-> "network", data |-> NoData]
\* the response has a status outside 200..299
NotOk == [kind |-> "status", data |-> NoData]
\* the status is fine but response.json() rejects
BadBody == [kind |-> "body", data |-> NoData]
\* response.json() resolved to data
Answer(data) == [kind |-> "ok", data |-> data]

\* a chat completion: data.choices may be missing, a choice may lack
\* message.content
Choice(chars) == [hasContent |-> TRUE, content |-> chars]
EmptyChoice == [hasContent |-> FALSE, content |-> <<>>]
Completion(choices) == [hasChoices |-> TRUE, choices |-> choices]
NoChoices == [hasChoices |-> FALSE, choices |-> <<>>]

ApiKeys == {"", "key"}

Failures == {NetworkFailure, NotOk, BadBody, Answer(NoChoices),
             Answer(Completion(<<>>)), Answer(Completion(<<EmptyChoice>>)),
             Answer(Completion(<<Choice(<<>>)>>))}

KeyScore == <<"s", "c", "o", "r", "e">>
KeyReasons == <<"r", "e", "a", "s", "o", "n", "s">>
ReasonSkills == JStr(<<"S", "k", "i", "l", "l", "s", " ", "f", "i", "t">>)
ReasonCity == JStr(<<"S", "a", "m", "e", " ", "c", "i", "t", "y">>)

SampleScores ==
  {JNum(n) : n \in {0 - 5, 0, 1, 50, 99, 100, 101, 250}}
  \cup {JStr(<<"8", "0">>), JStr(<<"h", "i", "g", "h">>), JNull, JBool(TRUE)}
SampleReasons == {JArr(<<ReasonSkills, ReasonCity>>), JArr(<<>>), ReasonSkills,
                  JNull}

\* the objects the model may answer the job-match prompt with
MatchObjects ==
  {JObj(<<Member(KeyScore, s), Member(KeyReasons, r)>>) :
      s \in SampleScores, r \in SampleReasons}
  \cup {JObj(<<Member(KeyScore, s)>>) : s \in SampleScores}
  \cup {JObj(<<Member(KeyReasons, r)>>) : r \in SampleReasons}
  \cup {JObj(<<Member(KeyScore, JNum(10)), Member(KeyScore, JNum(70))>>),
        JObj(<<>>), JNull, JNum(7), JArr(<<JNum(7)>>), ReasonSkills}

Fence == <<"-", "-", "-">>

\* their texts, the same texts cut short or wrapped, and prose
MatchContents ==
  {JSONStringify(o) : o \in MatchObjects}
  \cup {SubSeq(JSONStringify(o), 1, Len(JSONStringify(o)) - 1) :
          o \in {JObj(<<Member(KeyScore, JNum(80))>>),
                 JObj(<<Member(KeyReasons, JArr(<<ReasonCity>>))>>)}}
  \cup {Fence \o <<"\n">> \o JSONStringify(JObj(<<Member(KeyScore, JNum(80))>>))
          \o <<"\n">> \o Fence,
        <<" ", "{", " ">> \o JSONStringify(JStr(KeyScore)) \o <<" ", ":", " ", "0",
          "\n", "}", "\n">>,
        <<"S", "c", "o", "r", "e", ":", " ", "8", "0">>,
        <<"{", "s", "c", "o", "r", "e", ":", "8", "0", "}">>,
        <<"0", "8", "0">>}

MatchResponses ==
  Failures \cup {Answer(Completion(<<Choice(c)>>)) : c \in MatchContents}

\* ---------------------------------------------------------------------
\* OpenAIService
\* ---------------------------------------------------------------------
ChatRequest == "POST https://api.openai.com/v1/chat/completions"

\* makeRequest without the check of the key: the request is sent with an
\* empty bearer token
makeRequestNoKeyCheck(apiKey, response) ==
  [threw |-> response.kind # "ok", data |-> response.data,
   sent |-> <<ChatRequest>>]

\* makeRequest(endpoint, body): what it returns or that it threw, and the
\* requests it sent
makeRequest(apiKey, response) ==
  IF apiKey = ""
  THEN [threw |-> TRUE, data |-> NoData, sent |-> <<>>]
  ELSE [threw |-> response.kind # "ok", data |-> response.data,
        sent |-> <<ChatRequest>>]

\* data.choices[0]: reading [0] of a missing choices throws a TypeError
ThrowsOnChoices(data) == ~data.hasChoices

\* data.choices[0]?.message?.content, the empty text when there is none
FirstContent(data) ==
  IF data.choices = <<>> \/ ~data.choices[1].hasContent THEN <<>>
  ELSE data.choices[1].content

Resolved(value, sent) == [rejected |-> FALSE, value |-> value, sent |-> sent]
Rejected(sent) == [rejected |-> TRUE, value |-> NoData, sent |-> sent]

\* the two functions that return the content or a fixed sentence
ContentOr(apiKey, response, unable, unavailable) ==
  LET r == makeRequest(apiKey, response)
  IN  IF r.threw \/ ThrowsOnChoices(r.data)
      THEN Resolved(Literal(unavailable), r.sent)
      ELSE IF FirstContent(r.data) = <<>>
      THEN Resolved(Literal(unable), r.sent)
      ELSE Resolved(Text(FirstContent(r.data)), r.sent)

generateResume(apiKey, response) ==
  ContentOr(apiKey, response, "Unable to generate resume at this time.",
            "Resume generation service is temporarily unavailable. Please try again later.")

summarizeResume(apiKey, response) ==
  ContentOr(apiKey, response, "Unable to summarize resume at this time.",
            "Resume summary service is temporarily unavailable.")

\* content.split('\n')
RECURSIVE SplitLines(_, _, _)
SplitLines(s, i, line) ==
  IF i > Len(s) THEN <<line>>
  ELSE IF s[i] = "\n" THEN <<line>> \o SplitLines(s, i + 1, <<>>)
  ELSE SplitLines(s, i + 1, Append(line, s[i]))

RECURSIVE TrimEnd(_)
TrimEnd(s) ==
  IF s # <<>> /\ IsSpace(s[Len(s)]) THEN TrimEnd(SubSeq(s, 1, Len(s) - 1))
  ELSE s

\* line.trim()
Trim(s) == TrimEnd(SubSeq(s, SkipSpace(s, 1), Len(s)))

\* line.replace(/^\d+\.\s*/, '')
StripNumbering(s) ==
  LET d == ParseDigits(s, 1, 0)
  IN  IF d.next > 1 /\ d.next <= Len(s) /\ s[d.next] = "."
      THEN SubSeq(s, SkipSpace(s, d.next + 1), Len(s))
      ELSE s

RECURSIVE FilterBlank(_)
FilterBlank(lines) ==
  IF lines = <<>> THEN <<>>
  ELSE (IF Trim(Head(lines)) = <<>> THEN <<>> ELSE <<Head(lines)>>)
       \o FilterBlank(Tail(lines))

DefaultSuggestions ==
  <<Literal("Software Developer"), Literal("Data Analyst"),
    Literal("Product Manager"), Literal("UX Designer"),
    Literal("Business Analyst")>>

MaxSuggestions == 5

getCareerSuggestions(apiKey, response) ==
  LET r == makeRequest(apiKey, response)
  IN  IF r.threw \/ ThrowsOnChoices(r.data)
      THEN Resolved(DefaultSuggestions, r.sent)
      ELSE LET lines == FilterBlank(SplitLines(FirstContent(r.data), 1, <<>>))
               suggestions ==
                 SliceFirst([i \in 1..Len(lines) |->
                               Text(Trim(StripNumbering(lines[i])))],
                            MaxSuggestions)
           IN  Resolved(IF Len(suggestions) > 0 THEN suggestions
                        ELSE DefaultSuggestions, r.sent)

MatchResult(score, reasons) == [score |-> score, reasons |-> reasons]

DefaultScore == JNum(50)

\* what analyzeJobMatch makes of the content, inside its inner try
ParsedMatch(content) ==
  LET result == JSONParse(IF content = <<>> THEN <<"{", "}">> ELSE content)
  IN  IF ~result.ok \/ result.value.t = "null"
      THEN MatchResult(DefaultScore,
                       <<Literal("Unable to analyze match at this time")>>)
      ELSE LET score == GetField(result.value, KeyScore)
               reasons == GetField(result.value, KeyReasons)
           IN  MatchResult(
                 ClampScore(IF Falsy(score) THEN DefaultScore ELSE score),
                 IF reasons.t = "arr" THEN reasons.items
                 ELSE <<Literal("General skill alignment")>>)

ServiceUnavailable ==
  MatchResult(DefaultScore,
              <<Literal("Job matching service temporarily unavailable")>>)

\* analyzeJobMatch without its outer catch
analyzeJobMatchNoCatch(apiKey, response) ==
  LET r == makeRequest(apiKey, response)
  IN  IF r.threw \/ ThrowsOnChoices(r.data) THEN Rejected(r.sent)
      ELSE Resolved(ParsedMatch(FirstContent(r.data)), r.sent)

analyzeJobMatch(apiKey, response) ==
  LET r == makeRequest(apiKey, response)
  IN  IF r.threw \/ ThrowsOnChoices(r.data)
      THEN Resolved(ServiceUnavailable, r.sent)
      ELSE Resolved(ParsedMatch(FirstContent(r.data)), r.sent)

\* ---------------------------------------------------------------------
\* MoodAnalysisService.analyzeMood
\* ---------------------------------------------------------------------
ModelRequest ==
  "POST https://api-inference.huggingface.co/models/cardiffnlp/twitter-roberta-base-sentiment-latest"

UpperCase == <<"A", "B", "C", "D", "E", "F", "G", "H", "I", "J", "K", "L", "M",
               "N", "O", "P", "Q", "R", "S", "T", "U", "V", "W", "X", "Y", "Z">>
LowerCase == <<"a", "b", "c", "d", "e", "f", "g", "h", "i", "j", "k", "l", "m",
               "n", "o", "p", "q", "r", "s", "t", "u", "v", "w", "x", "y", "z">>

\* s.toLowerCase()
ToLowerCase(s) ==
  [i \in 1..Len(s) |->
     IF \E k \in 1..26 : UpperCase[k] = s[i]
     THEN LowerCase[CHOOSE k \in 1..26 : UpperCase[k] = s[i]]
     ELSE s[i]]

\* s.replace(pattern, ''): the first occurrence is removed
RemoveFirst(s, pattern) ==
  LET at == {i \in 1..(Len(s) - Len(pattern) + 1) :
               SubSeq(s, i, i + Len(pattern) - 1) = pattern}
  IN  IF at = {} THEN s
      ELSE LET i == CHOOSE i \in at : \A j \in at : i <= j
           IN  SubSeq(s, 1, i - 1) \o SubSeq(s, i + Len(pattern), Len(s))

\* x > y for doubles
NumGreater(x, y) ==
  IF x.sig = <<>> THEN FALSE
  ELSE IF y.sig = <<>> THEN TRUE
  ELSE x.exp > y.exp \/ (x.exp = y.exp /\ BigCmp(x.sig, y.sig) > 0)

\* an entry { label, score } of the classifier's answer; a missing label is
\* the empty text and a missing score is 0, which || treats alike
Emotion(label, score) == [label |-> label, score |-> score]

\* emotions.reduce((prev, curr) =>
\*   (prev.score || 0) > (curr.score || 0) ? prev : curr)
RECURSIVE TopEmotion(_, _)
TopEmotion(prev, rest) ==
  IF rest = <<>> THEN prev
  ELSE TopEmotion(IF NumGreater(prev.score, Head(rest).score) THEN prev
                  ELSE Head(rest),
                  Tail(rest))

NeutralLabel == <<"n", "e", "u", "t", "r", "a", "l">>
LabelPrefix == <<"l", "a", "b", "e", "l", "_">>
Half == NumDivInt(1, 2)
Hundred == NumOfInt(100)

Mood(sentiment, confidence) ==
  [sentiment |-> sentiment, confidence |-> confidence]

NeutralMood == Mood(NeutralLabel, Half)

\* the answer of the classifier: any JSON value; what matters of it is
\* whether it is an array, and whether its first entry is one
MoodArray(items) == [isArray |-> TRUE, items |-> items]
NotAMoodArray == [isArray |-> FALSE, items |-> <<>>]

analyzeMood(apiKey, text, response) ==
  IF apiKey = "" THEN Resolved(NeutralMood, <<>>)
  ELSE IF Trim(text) = <<>> THEN Resolved(NeutralMood, <<>>)
  ELSE IF response.kind # "ok" THEN Resolved(NeutralMood, <<ModelRequest>>)
  ELSE LET data == response.data
       IN  IF data.isArray /\ Len(data.items) > 0 /\ data.items[1].isArray
           THEN LET emotions == data.items[1].items
                IN  IF emotions = <<>>
                    THEN Resolved(NeutralMood, <<ModelRequest>>)
                    ELSE LET result == TopEmotion(Head(emotions), Tail(emotions))
                             label == IF result.label = <<>> THEN NeutralLabel
                                      ELSE result.label
                             score == IF result.score = NumZero THEN Half
                                      ELSE result.score
                         IN  Resolved(
                               Mood(RemoveFirst(ToLowerCase(label), LabelPrefix),
                                    NumDivInt(MathRound(NumMul(score, Hundred)),
                                              100)),
                               <<ModelRequest>>)
           ELSE Resolved(NeutralMood, <<ModelRequest>>)

SampleEmotions ==
  {Emotion(<<"L", "A", "B", "E", "L", "_", "2">>, NumDivInt(995, 1000)),
   Emotion(<<"p", "o", "s", "i", "t", "i", "v", "e">>, NumDivInt(995, 1000)),
   Emotion(<<"N", "e", "g", "a", "t", "i", "v", "e">>, NumDivInt(333, 1000)),
   Emotion(<<"x", "_", "L", "a", "b", "e", "l", "_", "l", "a", "b", "e", "l", "_">>,
           NumDivInt(5, 1000)),
   Emotion(<<>>, NumOfInt(1)),
   Emotion(<<"n", "e", "u", "t", "r", "a", "l">>, NumZero)}
MaxEmotions == 2
EmotionLists ==
  UNION {[1..n -> SampleEmotions] : n \in 0..MaxEmotions}

MoodResponses ==
  {NetworkFailure, NotOk, BadBody, Answer(NotAMoodArray), Answer(MoodArray(<<>>)),
   Answer(MoodArray(<<NotAMoodArray>>))}
  \cup {Answer(MoodArray(<<MoodArray(e)>>)) : e \in EmotionLists}

MoodTexts == {<<>>, <<" ", "\n">>, <<" ", "o", "k", " ">>}

\* ---------------------------------------------------------------------
\* Calls of the services.  The services keep nothing between two calls, so
\* a behaviour makes one call.
\* ---------------------------------------------------------------------
ResumeText == <<"A", "n", "n", "\n", "B", "S", "c">>
TextResponses == Failures \cup {Answer(Completion(<<Choice(ResumeText)>>)),
                                Answer(Completion(<<Choice(ResumeText),
                                                    EmptyChoice>>))}

SuggestionContents ==
  {<<"1", ".", " ", "D", "e", "v", "\n", "2", ".", " ", "Q", "A">>,
   <<"\n", " ", "\n">>,
   <<"D", "e", "v", "\n", "\n", " ", "1", "2", ".", " ", " ", "O", "p", "s", " ">>,
   <<"1", ".", " ", "\n", "Q", "A">>,
   <<"a", "\n", "b", "\n", "c", "\n", "d", "\n", "e", "\n", "f">>}
SuggestionResponses ==
  Failures \cup {Answer(Completion(<<Choice(c)>>)) : c \in SuggestionContents}

Advise(op, input, outcome) ==
  /\ advice = NoCallYet
  /\ advice' = [op |-> op, input |-> input, rejected |-> outcome.rejected,
                value |-> outcome.value]
  /\ requests' = outcome.sent
  /\ UNCHANGED <<openaiKey, hfKey, wellnessVars, storeVars, liveVars,
                 providerVars, schemaVars, formVars>>

GenerateResume(response) ==
  /\ response \in TextResponses
  /\ Advise("generateResume", [response |-> response],
            generateResume(openaiKey, response))

GetCareerSuggestions(response) ==
  /\ response \in SuggestionResponses
  /\ Advise("getCareerSuggestions", [response |-> response],
            getCareerSuggestions(openaiKey, response))

SummarizeResume(response) ==
  /\ response \in TextResponses
  /\ Advise("summarizeResume", [response |-> response],
            summarizeResume(openaiKey, response))

AnalyzeJobMatch(response) ==
  /\ response \in MatchResponses
  /\ Advise("analyzeJobMatch", [response |-> response],
            analyzeJobMatch(openaiKey, response))

AnalyzeMood(text, response) ==
  /\ text \in MoodTexts
  /\ Advise("analyzeMood", [response |-> response, text |-> text],
            analyzeMood(hfKey, text, response))

\* each service reads its key from the environment when the module loads
InitServices ==
  /\ InitWellness
  /\ InitStores
  /\ isDevelopment = TRUE
  /\ InitRemote
  /\ InitProvider
  /\ openaiKey \in ApiKeys
  /\ hfKey \in ApiKeys
  /\ InitAdvisor
  /\ InitSchema
  /\ InitForm

NextServices ==
  \/ \E response \in TextResponses : GenerateResume(response)
  \/ \E response \in SuggestionResponses : GetCareerSuggestions(response)
  \/ \E response \in TextResponses : SummarizeResume(response)
  \/ \E response \in MatchResponses : AnalyzeJobMatch(response)
  \/ \E text \in MoodTexts, response \in MoodResponses :
        AnalyzeMood(text, response)

SpecServices == InitServices /\ [][NextServices]_vars

\* ---------------------------------------------------------------------
\* The tables job_postings, student_profiles and applications of the
\* migration, and the statements that change them.  Row-level security is
\* left out: the statements are those of a role the policies let through.
\* ---------------------------------------------------------------------
MaxParents == 1
MaxApplications == 2

\* a column that holds NULL; row ids start at 1
SqlNull == 0

JobIds == 1..MaxParents
StudentProfileIds == 1..MaxParents
ApplicationIds == 1..MaxApplications

UniqueViolation == "23505"
ForeignKeyViolation == "23503"

\* the row satisfies both REFERENCES clauses: a NULL references nothing
ReferencesHold(row) ==
  /\ row.job_id # SqlNull => row.job_id \in jobPostings
  /\ row.student_id # SqlNull => row.student_id \in studentIds

\* UNIQUE(job_id, student_id) would be violated by the row next to the rows
\* under the other ids: two rows conflict when both columns are equal and
\* none of them is NULL
UniqueConflict(id, row) ==
  \E k \in DOMAIN applications \ {id} :
     /\ row.job_id # SqlNull
     /\ row.student_id # SqlNull
     /\ applications[k].job_id = row.job_id
     /\ applications[k].student_id = row.student_id

Statement(op, id, row, error) ==
  sqlResult' = [op |-> op, id |-> id, row |-> row, error |-> error]

NoRow == [job_id |-> SqlNull, student_id |-> SqlNull]

SchemaFrame ==
  UNCHANGED <<wellnessVars, storeVars, liveVars, providerVars, advisorVars,
              formVars>>

\* INSERT INTO job_postings
InsertJobPosting(j) ==
  /\ j \notin jobPostings
  /\ jobPostings' = jobPostings \cup {j}
  /\ Statement("insert job_postings", j, NoRow, NoError)
  /\ UNCHANGED <<studentIds, applications>>
  /\ SchemaFrame

\* DELETE FROM job_postings: ON DELETE CASCADE removes its applications
DeleteJobPosting(j) ==
  /\ j \in jobPostings
  /\ jobPostings' = jobPostings \ {j}
  /\ applications' =
       [k \in {a \in DOMAIN applications : applications[a].job_id # j} |->
          applications[k]]
  /\ Statement("delete job_postings", j, NoRow, NoError)
  /\ UNCHANGED studentIds
  /\ SchemaFrame

\* INSERT INTO student_profiles
InsertStudentProfile(s) ==
  /\ s \notin studentIds
  /\ studentIds' = studentIds \cup {s}
  /\ Statement("insert student_profiles", s, NoRow, NoError)
  /\ UNCHANGED <<jobPostings, applications>>
  /\ SchemaFrame

\* DELETE FROM student_profiles: ON DELETE CASCADE removes its applications
DeleteStudentProfile(s) ==
  /\ s \in studentIds
  /\ studentIds' = studentIds \ {s}
  /\ applications' =
       [k \in {a \in DOMAIN applications : applications[a].student_id # s} |->
          applications[k]]
  /\ Statement("delete student_profiles", s, NoRow, NoError)
  /\ UNCHANGED jobPostings
  /\ SchemaFrame

\* INSERT INTO applications (id, job_id, student_id): id is what
\* uuid_generate_v4() returned or what the statement supplied
InsertApplication(id, job, student) ==
  LET row == [job_id |-> job, student_id |-> student]
      error == IF id \in DOMAIN applications THEN UniqueViolation
               ELSE IF UniqueConflict(id, row) THEN UniqueViolation
               ELSE IF ~ReferencesHold(row) THEN ForeignKeyViolation
               ELSE NoError
  IN  /\ applications' = IF error = NoError THEN MapSet(applications, id, row)
                         ELSE applications
      /\ Statement("insert applications", id, row, error)
      /\ UNCHANGED <<jobPostings, studentIds>>
      /\ SchemaFrame

\* UPDATE applications SET job_id, student_id WHERE id
UpdateApplication(id, job, student) ==
  LET row == [job_id |-> job, student_id |-> student]
      error == IF UniqueConflict(id, row) THEN UniqueViolation
               ELSE IF ~ReferencesHold(row) THEN ForeignKeyViolation
               ELSE NoError
  IN  /\ id \in DOMAIN applications
      /\ applications' = IF error = NoError THEN MapSet(applications, id, row)
                         ELSE applications
      /\ Statement("update applications", id, row, error)
      /\ UNCHANGED <<jobPostings, studentIds>>
      /\ SchemaFrame

\* DELETE FROM applications WHERE id
DeleteApplication(id) ==
  /\ id \in DOMAIN applications
  /\ applications' = MapRemove(applications, id)
  /\ Statement("delete applications", id, NoRow, NoError)
  /\ UNCHANGED <<jobPostings, studentIds>>
  /\ SchemaFrame

NextSchema ==
  \/ \E j \in JobIds : InsertJobPosting(j)
  \/ \E j \in JobIds : DeleteJobPosting(j)
  \/ \E s \in StudentProfileIds : InsertStudentProfile(s)
  \/ \E s \in StudentProfileIds : DeleteStudentProfile(s)
  \/ \E id \in ApplicationIds, job \in JobIds \cup {SqlNull},
        student \in StudentProfileIds \cup {SqlNull} :
        InsertApplication(id, job, student)
  \/ \E id \in ApplicationIds, job \in JobIds \cup {SqlNull},
        student \in StudentProfileIds \cup {SqlNull} :
        UpdateApplication(id, job, student)
  \/ \E id \in ApplicationIds : DeleteApplication(id)

SpecSchema == Init /\ [][NextSchema]_vars

\* ---------------------------------------------------------------------
\* LoginForm and RegisterForm.  onSubmit is a closure of the render that
\* created it: it reads the isSubmitting of that render.  setIsSubmitting(true)
\* is called in the microtasks of the submit event (handleSubmit awaits only
\* the synchronous field rules), where React commits the render before the
\* next event is dispatched.  setIsSubmitting(false) is called when the
\* request completes, and the render that follows it is a later task.
\* ---------------------------------------------------------------------
MaxSubmits == 3

FormKinds == {"LoginForm", "RegisterForm"}

FormError(field, message) == [field |-> field, message |-> message]

\* what signIn / signUp of the context resolve to: no error, or an error
\* with one of these messages; "throw" is an exception inside the try block
SubmitOutcomes(kind) ==
  {"ok", "throw", "Failed to fetch"}
  \cup (IF kind = "LoginForm"
        THEN {"Invalid login credentials", "Email not confirmed"}
        ELSE {"User already registered",
              "Password should be at least 6 characters"})

AllSubmitOutcomes == UNION {SubmitOutcomes(kind) : kind \in FormKinds}

\* the setFormError call that follows an outcome
FormErrorOf(kind, outcome) ==
  CASE outcome = "throw" ->
         FormError("email", "An unexpected error occurred. Please try again.")
    [] kind = "LoginForm" /\ outcome = "Invalid login credentials" ->
         FormError("email", "Invalid email or password")
    [] kind = "LoginForm" /\ outcome = "Email not confirmed" ->
         FormError("email", "Please check your email and confirm your account")
    [] kind = "RegisterForm" /\ outcome = "User already registered" ->
         FormError("email", "An account with this email already exists")
    [] kind = "RegisterForm"
         /\ outcome = "Password should be at least 6 characters" ->
         FormError("password", outcome)
    [] OTHER -> FormError("email", outcome)

FormFrame ==
  UNCHANGED <<wellnessVars, storeVars, liveVars, providerVars, advisorVars,
              schemaVars>>

\* onSubmit without its first line
OnSubmitNoGuard(valid) ==
  /\ form.submits < MaxSubmits
  /\ ~form.navigated
  /\ form' = IF ~valid
             THEN [form EXCEPT !.submits = @ + 1, !.last = "invalid"]
             ELSE [form EXCEPT !.submits = @ + 1, !.last = "issued",
                               !.isSubmitting = TRUE, !.rendered = TRUE,
                               !.outstanding = @ + 1]
  /\ FormFrame

\* a submit event reaches the form: handleSubmit validates the fields and
\* calls the onSubmit of the committed render, which runs up to its await
OnSubmit(valid) ==
  /\ form.submits < MaxSubmits
  /\ ~form.navigated
  /\ form' = IF ~valid
             THEN [form EXCEPT !.submits = @ + 1, !.last = "invalid"]
             ELSE IF form.rendered
             THEN [form EXCEPT !.submits = @ + 1, !.last = "ignored"]
             ELSE [form EXCEPT !.submits = @ + 1, !.last = "issued",
                               !.isSubmitting = TRUE, !.rendered = TRUE,
                               !.outstanding = @ + 1]
  /\ FormFrame

\* React commits the render that a completed request asked for
FormRender ==
  /\ form.rendered # form.isSubmitting
  /\ form' = [form EXCEPT !.rendered = form.isSubmitting]
  /\ FormFrame

\* a signIn / signUp request of the form completes and its onSubmit runs
\* from the await to the end
OnSubmitResumed(outcome) ==
  /\ form.outstanding > 0
  /\ outcome \in SubmitOutcomes(form.kind)
  /\ form' = [form EXCEPT
                !.outstanding = @ - 1,
                !.isSubmitting = FALSE,
                !.last = "completed",
                !.formError = IF outcome = "ok" THEN @
                              ELSE FormErrorOf(form.kind, outcome),
                !.navigated = @ \/ outcome = "ok"]
  /\ FormFrame

InitForms ==
  /\ InitWellness
  /\ InitStores
  /\ isDevelopment = TRUE
  /\ InitRemote
  /\ InitProvider
  /\ openaiKey = ""
  /\ hfKey = ""
  /\ InitAdvisor
  /\ InitSchema
  /\ form \in {NewForm(kind) : kind \in FormKinds}

NextForms ==
  \/ \E valid \in BOOLEAN : OnSubmit(valid)
  \/ FormRender
  \/ \E outcome \in AllSubmitOutcomes : OnSubmitResumed(outcome)

SpecForms == InitForms /\ [][NextForms]_vars

\* ---------------------------------------------------------------------
\* Properties of the WellnessScorer
\* ---------------------------------------------------------------------
Range(f) == {f[i] : i \in DOMAIN f}

\* the newest Min(k, n) entries of a history of n entries
LastEntries(logs, k) ==
  LET n == Len(logs)
      w == Min(k, n)
  IN  [i \in 1..w |-> logs[n - w + i]]

RECURSIVE FieldTotal(_, _, _)
FieldTotal(logs, field, i) ==
  IF i = 0 THEN 0 ELSE logs[i][field] + FieldTotal(logs, field, i - 1)

\* round((avgMood*0.4 + (10 - avgStress)*0.3 + avgEnergy*0.3) * 10) over the
\* entries of w, in exact arithmetic: the value is num / n with
\* num = 4*sumMood + 3*(10*n - sumStress) + 3*sumEnergy, rounded half up
RoundedFormula(w) ==
  LET n   == Len(w)
      num == 4 * FieldTotal(w, "mood_score", n)
             + 3 * (10 * n - FieldTotal(w, "stress_level", n))
             + 3 * FieldTotal(w, "energy_level", n)
  IN  (2 * num + n) \div (2 * n)

Repeated(entry, n) == [i \in 1..n |-> entry]

\* C1: for every non-empty array of mood logs with fields in 1..10,
\* calculateResilienceScore returns round((avgMood*0.4 + (10 - avgStress)*0.3
\* + avgEnergy*0.3)*10) over the last min(7, n) entries, a value in [0,100].
C1_ScoreIsRoundedFormula ==
  (scoreCall = "array" /\ Len(moodLogs) >= 1) =>
     /\ resilienceScore = RoundedFormula(LastEntries(moodLogs, 7))
     /\ resilienceScore \in 0..100

\* C2 (as stated): for (mood=10, stress=1, energy=10) repeated 7 times,
\* calculateResilienceScore returns 100.
C2_BestWeekScores100 ==
  (scoreCall = "array" /\ moodLogs = Repeated(MoodLog(10, 1, 10), 7)) =>
     resilienceScore = 100

\* C2 (amended): for (mood=10, stress=1, energy=10) repeated 7 times,
\* calculateResilienceScore returns 97.
C2_BestWeekScores97 ==
  (scoreCall = "array" /\ moodLogs = Repeated(MoodLog(10, 1, 10), 7)) =>
     resilienceScore = 97

C2_Witness ==
  /\ scoreCall = "array"
  /\ moodLogs = Repeated(MoodLog(10, 1, 10), 7)
  /\ resilienceScore = 97

\* C3: calculateResilienceScore returns 50 for an empty array and for any
\* argument that is not an array.
C3_EmptyScores50 ==
  /\ (scoreCall = "array" /\ Len(moodLogs) = 0) => resilienceScore = 50
  /\ scoreCall = "notArray" => resilienceScore = 50

C3_Witness ==
  /\ scoreCall = "array"
  /\ moodLogs = <<>>
  /\ resilienceScore = 50

\* C4: for any non-empty window in which every entry is (5, 5, 5),
\* calculateResilienceScore returns exactly 50.
C4_NeutralScores50 ==
  (/\ scoreCall = "array"
   /\ Len(moodLogs) >= 1
   /\ \A i \in 1..Len(moodLogs) : moodLogs[i] = MoodLog(5, 5, 5)) =>
     resilienceScore = 50

C4_Witness ==
  /\ scoreCall = "array"
  /\ moodLogs = Repeated(MoodLog(5, 5, 5), 3)
  /\ resilienceScore = 50

\* C5: the score depends only on the newest 7 entries: the score of a history
\* equals the score of its last min(7, n) entries alone, so two histories with
\* the same last 7 entries score the same and older entries never matter.
C5_OnlyLastSevenCount ==
  scoreCall = "array" =>
     resilienceScore = calculateResilienceScore(ArrayOf(LastEntries(moodLogs, 7)))

C5_Witness ==
  /\ scoreCall = "array"
  /\ Len(moodLogs) = 8
  /\ moodLogs[1] = MoodLog(10, 1, 10)
  /\ \A i \in 2..8 : moodLogs[i] = MoodLog(5, 5, 5)
  /\ resilienceScore = 50

\* C6: generateWellnessRecommendations(mood, stress, energy) contains the two
\* low-mood messages iff mood < 4, the three stress messages iff stress > 7,
\* the three energy messages iff energy < 4, and the two positive messages iff
\* no rule matched; (3,2,3) gives the mood and energy sets without the stress
\* set and (8,8,8) gives only the stress set.
C6_RecommendationRules ==
  recArgs # <<>> =>
    LET mood   == recArgs[1]
        stress == recArgs[2]
        energy == recArgs[3]
        got    == Range(recommendations)
        Has(msgs)  == Range(msgs) \subseteq got
        None(msgs) == Range(msgs) \cap got = {}
    IN  /\ IF mood < 4 THEN Has(LowMoodMessages) ELSE None(LowMoodMessages)
        /\ IF stress > 7 THEN Has(StressMessages) ELSE None(StressMessages)
        /\ IF energy < 4 THEN Has(EnergyMessages) ELSE None(EnergyMessages)
        /\ IF mood >= 4 /\ stress <= 7 /\ energy >= 4
           THEN Has(PositiveMessages) ELSE None(PositiveMessages)
        /\ recArgs = <<3, 2, 3>> =>
             got = Range(LowMoodMessages) \cup Range(EnergyMessages)
        /\ recArgs = <<8, 8, 8>> => got = Range(StressMessages)

C6_Witness ==
  /\ recArgs = <<3, 2, 3>>
  /\ recommendations = LowMoodMessages \o EnergyMessages

\* ---------------------------------------------------------------------
\* Properties of the mock ProfileStore
\* ---------------------------------------------------------------------

\* the step is a call of op
Returned(op) == calls' # calls /\ ret'.op = op

StoresUnchanged ==
  UNCHANGED <<dbProfiles, authUsers, authProfiles, currentUser>>

\* C7: createProfile(p) followed, after any operations on other ids, by
\* getProfile with the id of the returned record returns, with error = null,
\* a record with the fields of p plus an id (p.id if supplied, otherwise a
\* generated one) and created_at / updated_at timestamps.
C7_CreateThenGet ==
  (ret.op = "dbHelpers.getProfile" /\ ret.id \in DOMAIN created) =>
     LET p == created[ret.id] IN
       /\ ret.error = NoError
       /\ ret.data # Null
       /\ DOMAIN ret.data = DOMAIN p \cup {"id", "created_at", "updated_at"}
       /\ \A f \in DOMAIN p \ {"created_at", "updated_at"} :
             ret.data[f] = p[f]
       /\ ret.data.id = ret.id
       /\ ret.data.created_at \in 0..now
       /\ ret.data.updated_at \in 0..now

C7_Witness ==
  /\ ret.op = "dbHelpers.getProfile"
  /\ ret.id \in DOMAIN created
  /\ "id" \notin DOMAIN created[ret.id]
  /\ ret.error = NoError
  /\ ret.data.full_name = "Ann"
  /\ Cardinality(DOMAIN dbProfiles) = 2

\* C8: updateProfile called with an id that is not in the store returns
\* data = null with a 'Profile not found' error and leaves the whole store
\* unchanged, for dbHelpers.updateProfile and for authService.updateProfile.
C8_UpdateMissingIsNotFound ==
  [][ /\ (Returned("dbHelpers.updateProfile") /\ ret'.id \notin DOMAIN dbProfiles)
           => /\ ret'.data = Null
              /\ ret'.error = "Profile not found"
              /\ StoresUnchanged
      /\ (Returned("authService.updateProfile") /\ ret'.id \notin DOMAIN authProfiles)
           => /\ ret'.data = Null
              /\ ret'.error = "Profile not found"
              /\ StoresUnchanged ]_vars

C8_Witness ==
  /\ ret.op = "dbHelpers.updateProfile"
  /\ ret.id \notin DOMAIN dbProfiles
  /\ DOMAIN dbProfiles # {}
  /\ ret.data = Null
  /\ ret.error = "Profile not found"

\* C9: createProfile on an id that is already present in the store returns an
\* AlreadyExists error and does not overwrite the existing record.
C9_CreateExistingFails ==
  [][ (Returned("dbHelpers.createProfile") /\ ret'.id \in DOMAIN dbProfiles)
        => /\ ret'.error # NoError
           /\ ret'.data = Null
           /\ dbProfiles' = dbProfiles ]_vars

\* C10: a profile's id is immutable: after any createProfile and updateProfile
\* calls every record stored under key k has id = k, and updateProfile(k, u)
\* never returns a record whose id differs from k.
C10_IdImmutable ==
  /\ \A k \in DOMAIN dbProfiles : dbProfiles[k].id = k
  /\ \A k \in DOMAIN authProfiles : authProfiles[k].id = k
  /\ (/\ ret.op \in {"dbHelpers.updateProfile", "authService.updateProfile"}
      /\ ret.data # Null) => ret.data.id = ret.id

\* ---------------------------------------------------------------------
\* Properties of both backends
\* ---------------------------------------------------------------------
DbOps ==
  {"dbHelpers.createProfile", "dbHelpers.getProfile", "dbHelpers.updateProfile"}

\* the profiles the backend in use holds
StoredProfiles == IF isDevelopment THEN dbProfiles ELSE remoteProfiles

\* C11: every result of dbHelpers.createProfile, getProfile and updateProfile,
\* in both backends, has data = null exactly when error is non-null; getProfile
\* on a missing id gives null data with a not-found error (or, live, with the
\* error of the failed query), and a failed or rejected remote query is
\* returned as null data with the error, never thrown to the caller.
C11_DataNullIffError ==
  ret.op \in DbOps =>
     /\ DOMAIN ret = {"op", "id", "arg", "data", "error"}
     /\ (ret.data = Null) <=> (ret.error # NoError)
     /\ (ret.op = "dbHelpers.getProfile" /\ ret.id \notin DOMAIN StoredProfiles)
          => /\ ret.data = Null
             /\ IF isDevelopment THEN ret.error = "Profile not found"
                ELSE ret.error \in {NoRows, RemoteError, ThrownFailure}
     /\ ret.error \in {RemoteError, ThrownFailure} => ret.data = Null

C11_Witness ==
  /\ ~isDevelopment
  /\ ret.op = "dbHelpers.getProfile"
  /\ DOMAIN remoteProfiles # {}
  /\ ret.id \notin DOMAIN remoteProfiles
  /\ ret.data = Null
  /\ ret.error = NoRows
  /\ remoteLog = <<"profiles.select">>

\* C12: signUp with an email that is already registered fails with an
\* 'already registered' error and has no further side effect: the mock backend
\* leaves users, profiles and currentUser unchanged; in the live backend a
\* signUp whose identity creation returned an error sends no insert into
\* profiles, student_profiles or company_profiles.
C12_RegisteredEmailFails ==
  [][ Returned("authService.signUp") =>
        /\ (isDevelopment /\ ret'.id \in DOMAIN authUsers)
             => /\ ret'.data = Null
                /\ ret'.error = "User already registered"
                /\ UNCHANGED <<authUsers, authProfiles, currentUser,
                               dbProfiles>>
        /\ (~isDevelopment /\ ret'.id \in DOMAIN remoteUsers)
             => /\ ret'.data = Null
                /\ ret'.error \in {"User already registered", RemoteError,
                                    ThrownFailure, "User creation failed"}
        /\ (~isDevelopment /\ remoteUsers' = remoteUsers)
             => /\ ret'.data = Null
                /\ ret'.error # NoError
                /\ remoteLog' = <<"auth.signUp">>
                /\ UNCHANGED <<remoteProfiles, studentProfiles,
                               companyProfiles, session, delivered>> ]_vars

C12_Witness ==
  /\ isDevelopment
  /\ ret.op = "authService.signUp"
  /\ ret.id \in DOMAIN authUsers
  /\ ret.error = "User already registered"
  /\ ret.data = Null
  /\ authUsers[ret.id].profile.full_name # ret.arg.full_name

\* C13: in the live backend, whenever the identity creation of signUp
\* succeeds, signUp returns the identity data with error = null, however the
\* later inserts into profiles, student_profiles or company_profiles end
\* (error value or thrown failure), and the identity stays.
C13_IdentityCreatedIsSuccess ==
  [][ (/\ Returned("authService.signUp")
       /\ ~isDevelopment
       /\ ret'.id \notin DOMAIN remoteUsers
       /\ ret'.id \in DOMAIN remoteUsers')
        => /\ ret'.error = NoError
           /\ ret'.data # Null
           /\ ret'.data.user = remoteUsers'[ret'.id] ]_vars

\* C14: after a successful signUp, in either backend, a StudentProfile of the
\* new user exists iff role = student and a non-empty college name was
\* supplied, a CompanyProfile with verification_status = 'pending' exists iff
\* role = company and a non-empty company name was supplied; never both, and
\* neither for role = admin.
C14_RoleProfileIffRequested ==
  (ret.op = "authService.signUp" /\ ret.error = NoError) =>
     LET userId == ret.data.user.id
         userData == ret.arg
         hasStudent == userId \in DOMAIN studentProfiles
         hasCompany == userId \in DOMAIN companyProfiles
     IN  /\ hasStudent <=> (/\ userData.role = "student"
                            /\ Truthy(userData, "college_name"))
         /\ hasCompany <=> (/\ userData.role = "company"
                            /\ Truthy(userData, "company_name"))
         /\ hasCompany =>
              companyProfiles[userId].verification_status = "pending"
         /\ ~(hasStudent /\ hasCompany)
         /\ userData.role = "admin" => ~hasStudent /\ ~hasCompany

\* the step changes who is signed in
SessionTransition == currentUser' # currentUser \/ session' # session

\* C15: a callback registered with authService.onAuthStateChange is invoked
\* on every later session transition caused by signUp, signIn or signOut
\* until it is unsubscribed, in both backends; after unsubscribe it is never
\* invoked again, and a second unsubscribe has no effect and raises no error.
C15_CallbackOnEveryTransition ==
  [][ \A l \in DOMAIN subscriptions :
        /\ (/\ subscriptions[l] = "active"
            /\ SessionTransition
            /\ \/ Returned("authService.signUp")
               \/ Returned("authService.signIn")
               \/ Returned("authService.signOut"))
             => Len(delivered'[l]) = Len(delivered[l]) + 1
        /\ subscriptions[l] = "unsubscribed"
             => /\ delivered'[l] = delivered[l]
                /\ subscriptions'[l] = "unsubscribed"
        /\ (/\ Returned("subscription.unsubscribe")
            /\ ret'.id = l
            /\ subscriptions[l] = "unsubscribed")
             => /\ ret'.error = NoError
                /\ UNCHANGED <<subscriptions, delivered, currentUser,
                               session>> ]_vars

\* ---------------------------------------------------------------------
\* Properties of AuthProvider
\* ---------------------------------------------------------------------

\* C16: once AuthProvider is unmounted (mounted = false and
\* subscription.unsubscribe() ran), none of user, profile, loading or error is
\* written again by getInitialSession, by an auth-change callback or by their
\* pending fetchProfile calls, however the unmount interleaves with them.
C16_NoWriteAfterUnmount ==
  (~mounted /\ lastStep \in {"getInitialSession", "onAuthStateChange"}) =>
     writes = {}

\* C17 (as stated): after the initialization from the current session, user
\* and profile are written only inside the subscribed auth-change callback;
\* signIn, signUp, signOut, updateProfile and clearError write neither.
C17_OnlyCallbackWrites ==
  ({"user", "profile"} \cap writes # {}) =>
     lastStep \in {"getInitialSession", "onAuthStateChange"}

\* C17 (amended): user and profile are written only by the initialization, by
\* the subscribed auth-change callback, by a successful signOut (both set to
\* null) and by a successful updateProfile (profile only); signIn, signUp and
\* clearError write neither.
C17_WritersOfUserAndProfile ==
  /\ ({"user", "profile"} \cap writes # {}) =>
        lastStep \in {"getInitialSession", "onAuthStateChange", "signOut",
                      "updateProfile"}
  /\ (lastStep = "signOut" /\ {"user", "profile"} \cap writes # {}) =>
        /\ {"user", "profile"} \subseteq writes
        /\ "error" \notin writes
        /\ auth.user = Null
        /\ auth.profile = Null
  /\ (lastStep = "updateProfile" /\ {"user", "profile"} \cap writes # {}) =>
        /\ writes = {"profile"}
        /\ auth.profile # Null

C17_Witness ==
  /\ lastStep = "updateProfile"
  /\ writes = {"profile"}
  /\ auth.user # Null
  /\ auth.profile = [id |-> 1, full_name |-> "Zed"]
  /\ initPc = "done"

\* ---------------------------------------------------------------------
\* Properties of the AI services
\* ---------------------------------------------------------------------
Called(op) == advice.op = op

\* the content of the first choice of an answered chat request
AnsweredContent ==
  IF advice.input.response.kind = "ok"
       /\ advice.input.response.data.hasChoices
       /\ advice.input.response.data.choices # <<>>
       /\ advice.input.response.data.choices[1].hasContent
  THEN advice.input.response.data.choices[1].content
  ELSE <<>>

\* the external call of the last analyzeJobMatch failed: the key is
\* missing, the network failed, the status was not OK, the response has no
\* choice, or the content is not JSON
MatchCallFailed ==
  \/ openaiKey = ""
  \/ advice.input.response.kind # "ok"
  \/ ~advice.input.response.data.hasChoices
  \/ advice.input.response.data.choices = <<>>
  \/ AnsweredContent # <<>> /\ ~JSONParse(AnsweredContent).ok

FallbackReasons ==
  {Literal("Job matching service temporarily unavailable"),
   Literal("Unable to analyze match at this time"),
   Literal("General skill alignment")}

\* C18: analyzeJobMatch never rejects, and whenever its external call
\* failed (missing key, network failure, non-OK status, no choices, content
\* that is not JSON) it resolves to score 50 and a reasons array that holds
\* exactly one fallback string.
C18_JobMatchFallsBack ==
  Called("analyzeJobMatch") =>
    /\ ~advice.rejected
    /\ MatchCallFailed =>
         /\ advice.value.score = JNum(50)
         /\ Len(advice.value.reasons) = 1
         /\ advice.value.reasons[1] \in FallbackReasons

\* the key is configured, the model answered, and its content is not JSON
C18_Witness ==
  /\ Called("analyzeJobMatch")
  /\ openaiKey # ""
  /\ AnsweredContent # <<>>
  /\ ~JSONParse(AnsweredContent).ok
  /\ requests = <<ChatRequest>>
  /\ advice.value.reasons = <<Literal("Unable to analyze match at this time")>>

\* the answered content is a JSON object whose score is an integer
IntegerScoreAnswered ==
  /\ Called("analyzeJobMatch")
  /\ openaiKey # ""
  /\ AnsweredContent # <<>>
  /\ JSONParse(AnsweredContent).ok
  /\ JSONParse(AnsweredContent).value.t = "obj"
  /\ GetField(JSONParse(AnsweredContent).value, KeyScore).t = "num"

\* C19: when the content parses to a JSON object with an integer score s,
\* analyzeJobMatch returns max(0, min(100, s)) as the score, and the
\* reasons unchanged when they are an array, one default reason otherwise.
C19_IntegerScoreClamped ==
  IntegerScoreAnswered =>
    LET result == JSONParse(AnsweredContent).value
        s == GetField(result, KeyScore).n
        reasons == GetField(result, KeyReasons)
    IN  /\ advice.value.score = JNum(Max(0, Min(100, s)))
        /\ IF reasons.t = "arr" THEN advice.value.reasons = reasons.items
           ELSE Len(advice.value.reasons) = 1

\* the key of the service that the last call belongs to
RelevantKey == IF Called("analyzeMood") THEN hfKey ELSE openaiKey

FixedFallback(op) ==
  CASE op = "generateResume" ->
         Literal("Resume generation service is temporarily unavailable. Please try again later.")
    [] op = "getCareerSuggestions" ->
         <<Literal("Software Developer"), Literal("Data Analyst"),
           Literal("Product Manager"), Literal("UX Designer"),
           Literal("Business Analyst")>>
    [] op = "summarizeResume" ->
         Literal("Resume summary service is temporarily unavailable.")
    [] op = "analyzeJobMatch" ->
         [score |-> JNum(50),
          reasons |-> <<Literal("Job matching service temporarily unavailable")>>]
    [] op = "analyzeMood" ->
         [sentiment |-> <<"n", "e", "u", "t", "r", "a", "l">>,
          confidence |-> NumDivInt(1, 2)]

\* C20: without the relevant API key, generateResume, getCareerSuggestions,
\* summarizeResume, analyzeJobMatch and analyzeMood issue no HTTP request
\* and each returns its fixed fallback value.
C20_NoKeyNoRequest ==
  (~Called("none") /\ RelevantKey = "") =>
    /\ requests = <<>>
    /\ ~advice.rejected
    /\ advice.value = FixedFallback(advice.op)

\* analyzeJobMatch was called without a key while the API would have
\* answered with a usable score
C20_Witness ==
  /\ Called("analyzeJobMatch")
  /\ openaiKey = ""
  /\ AnsweredContent # <<>>
  /\ JSONParse(AnsweredContent).ok
  /\ requests = <<>>
  /\ advice.value.score = JNum(50)

\* the entries of a classifier answer of the shape [[ {label, score}, ... ]]
\* with at least one entry, each with a label
AnsweredEmotions ==
  IF advice.input.response.kind = "ok"
       /\ advice.input.response.data.isArray
       /\ advice.input.response.data.items # <<>>
       /\ advice.input.response.data.items[1].isArray
       /\ \A i \in DOMAIN advice.input.response.data.items[1].items :
             advice.input.response.data.items[1].items[i].label # <<>>
  THEN advice.input.response.data.items[1].items
  ELSE <<>>

\* the response failed, is malformed or holds no entry
NoEmotionsAnswered ==
  \/ advice.input.response.kind # "ok"
  \/ ~advice.input.response.data.isArray
  \/ advice.input.response.data.items = <<>>
  \/ ~advice.input.response.data.items[1].isArray
  \/ advice.input.response.data.items[1].items = <<>>

\* a label without its 'label_' prefix
StripPrefix(s) ==
  IF Len(s) >= Len(LabelPrefix) /\ SubSeq(s, 1, Len(LabelPrefix)) = LabelPrefix
  THEN SubSeq(s, Len(LabelPrefix) + 1, Len(s))
  ELSE s

\* C21: for a well-formed response analyzeMood returns the label of an
\* entry with maximal score, lowercased and without the 'label_' prefix; for
\* a failed, malformed or empty response and for blank text it returns
\* 'neutral'; it never throws.
C21_TopLabelNormalized ==
  Called("analyzeMood") =>
    /\ ~advice.rejected
    /\ (hfKey # "" /\ Trim(advice.input.text) # <<>> /\ AnsweredEmotions # <<>>) =>
         \E i \in DOMAIN AnsweredEmotions :
            /\ \A j \in DOMAIN AnsweredEmotions :
                  ~NumGreater(AnsweredEmotions[j].score, AnsweredEmotions[i].score)
            /\ advice.value.sentiment =
                 StripPrefix(ToLowerCase(AnsweredEmotions[i].label))
    /\ (Trim(advice.input.text) = <<>> \/ NoEmotionsAnswered) =>
         advice.value.sentiment = NeutralLabel

\* ---------------------------------------------------------------------
\* Properties of the applications table
\* ---------------------------------------------------------------------
\* C22: the applications collection never holds two records with the same
\* (job_id, student_id) pair.
C22_NoDuplicatePair ==
  \A a \in DOMAIN applications, b \in DOMAIN applications :
     (applications[a].job_id = applications[b].job_id
        /\ applications[a].student_id = applications[b].student_id) => a = b

\* ---------------------------------------------------------------------
\* Properties of LoginForm and RegisterForm
\* ---------------------------------------------------------------------
\* C23: a form instance has at most one signIn / signUp request outstanding
\* at any time, whatever the order of submit events and completions.
C23_OneOutstandingRequest == form.outstanding <= 1

\* a submit event arrived while the request of an earlier one was
\* outstanding, and issued none
C23_Witness ==
  /\ form.last = "ignored"
  /\ form.outstanding = 1
  /\ form.isSubmitting

\* the window with one field of its i-th entry replaced
WithLevel(window, i, field, v) ==
  ArrayOf([window EXCEPT ![i] = [@ EXCEPT ![field] = v]])

\* the entries are in the order of their mood_score: one order for each
\* collection of entries, the three sums do not depend on the order
InMoodOrder(logs) ==
  \A i \in 1..(Len(logs) - 1) : logs[i].mood_score <= logs[i + 1].mood_score

\* C24: calculateResilienceScore is monotone: for windows of equal length with
\* fields in 1..10, raising any entry's mood_score or energy_level never
\* lowers the score, and raising any entry's stress_level never raises it.
\* The logs are the window itself while no more than WindowSize are recorded.
C24_ScoreMonotone ==
  (scoreCall = "array" /\ Len(moodLogs) \in 1..WindowSize
     /\ InMoodOrder(moodLogs)) =>
     \A i \in 1..Len(moodLogs) : \A v \in Levels :
        /\ v > moodLogs[i].mood_score =>
             calculateResilienceScore(WithLevel(moodLogs, i, "mood_score", v))
               >= resilienceScore
        /\ v > moodLogs[i].energy_level =>
             calculateResilienceScore(WithLevel(moodLogs, i, "energy_level", v))
               >= resilienceScore
        /\ v > moodLogs[i].stress_level =>
             calculateResilienceScore(WithLevel(moodLogs, i, "stress_level", v))
               <= resilienceScore

\* a full window was scored, and raising one entry moves the score: up for
\* the mood, down for the stress
C24_Witness ==
  /\ scoreCall = "array"
  /\ Len(moodLogs) = 7
  /\ InMoodOrder(moodLogs)
  /\ \E i \in 1..7 :
        /\ moodLogs[i] = MoodLog(4, 3, 4)
        /\ calculateResilienceScore(WithLevel(moodLogs, i, "mood_score", 10))
             > resilienceScore
        /\ calculateResilienceScore(WithLevel(moodLogs, i, "stress_level", 10))
             < resilienceScore

RoleInserts == {"student_profiles.insert", "company_profiles.insert"}

\* the role and the name of a role-specific profile were supplied
WantsRoleProfile(userData) ==
  \/ userData.role = "student" /\ Truthy(userData, "college_name")
  \/ userData.role = "company" /\ Truthy(userData, "company_name")

\* C25: in live-mode signUp the steps run in a fixed order: the profiles
\* insert is attempted only after identity creation returned a user, and the
\* role-specific insert only after the profiles insert attempt has completed;
\* if identity creation returns an error or no user, no insert is attempted;
\* and a profiles insert that returns an error does not prevent the
\* role-specific insert from being attempted.
C25_SignUpStepsInOrder ==
  [][ (Returned("authService.signUp") /\ ~isDevelopment) =>
        LET log == remoteLog'
            userReturned == /\ ret'.id \notin DOMAIN remoteUsers
                            /\ ret'.id \in DOMAIN remoteUsers'
            profileStored == remoteProfiles' # remoteProfiles
        IN  /\ Len(log) >= 1
            /\ log[1] = "auth.signUp"
            /\ \A i \in 1..Len(log) :
                  /\ log[i] = "auth.signUp" => i = 1
                  /\ log[i] = "profiles.insert" => (i = 2 /\ userReturned)
                  /\ log[i] \in RoleInserts
                       => (i = 3 /\ log[2] = "profiles.insert")
            /\ ~userReturned => log = <<"auth.signUp">>
            /\ userReturned => (Len(log) >= 2 /\ log[2] = "profiles.insert")
            \* signUp returned without a thrown failure and the profile is
            \* not stored: its insert returned an error
            /\ (/\ userReturned
                /\ ~profileStored
                /\ ret'.error = NoError
                /\ WantsRoleProfile(ret'.arg))
                 => (Len(log) = 3 /\ log[3] \in RoleInserts) ]_vars

\* a live signUp whose insert into profiles returned an error went on to the
\* insert into student_profiles or company_profiles
C25_Witness ==
  /\ ~isDevelopment
  /\ ret.op = "authService.signUp"
  /\ ret.error = NoError
  /\ ret.data.user.id \notin DOMAIN remoteProfiles
  /\ Len(remoteLog) = 3
  /\ remoteLog[2] = "profiles.insert"
  /\ remoteLog[3] \in RoleInserts

UpdateOps == {"dbHelpers.updateProfile", "authService.updateProfile"}

\* the mockStorage.profiles map an updateProfile works on
ProfilesOf(op) ==
  IF op = "dbHelpers.updateProfile" THEN dbProfiles ELSE authProfiles

\* the step is an updateProfile on an id its store holds, in the mock backend
UpdatedExisting(op) ==
  /\ Returned(op)
  /\ isDevelopment
  /\ ret'.id \in DOMAIN ProfilesOf(op)

\* the record is stored and returned, the fields not named in the updates
\* keep their values, and no other record changes
UpdateKeepsTheRest(op) ==
  LET existing == ProfilesOf(op)[ret'.id]
      updates  == ret'.arg
      record   == ProfilesOf(op)'[ret'.id]
  IN  /\ ret'.error = NoError
      /\ ret'.data = record
      /\ DOMAIN ProfilesOf(op)' = DOMAIN ProfilesOf(op)
      /\ DOMAIN record = DOMAIN existing \cup DOMAIN updates \cup {"updated_at"}
      /\ record.updated_at = now
      /\ \A f \in DOMAIN existing \ (DOMAIN updates \cup {"updated_at"}) :
            record[f] = existing[f]
      /\ \A k \in DOMAIN ProfilesOf(op) \ {ret'.id} :
            ProfilesOf(op)'[k] = ProfilesOf(op)[k]
      /\ op = "dbHelpers.updateProfile" => UNCHANGED authProfiles
      /\ op = "authService.updateProfile" => UNCHANGED dbProfiles

\* C26 (as stated): updateProfile on an existing id stores and returns a
\* record in which every field named in the updates has the supplied value,
\* updated_at is refreshed, and every other field of the existing record (in
\* particular created_at) keeps its previous value; records under every other
\* id are unchanged.
C26_UpdateMergesAllFields ==
  [][ \A op \in UpdateOps :
        UpdatedExisting(op) =>
          /\ UpdateKeepsTheRest(op)
          /\ \A f \in DOMAIN ret'.arg :
                ProfilesOf(op)'[ret'.id][f] = ret'.arg[f] ]_vars

\* C26 (amended): the same, for every field named in the updates other than
\* updated_at; updated_at is the time of the call whatever the updates say.
C26_UpdateMergesButRefreshes ==
  [][ \A op \in UpdateOps :
        UpdatedExisting(op) =>
          /\ UpdateKeepsTheRest(op)
          /\ \A f \in DOMAIN ret'.arg \ {"updated_at"} :
                ProfilesOf(op)'[ret'.id][f] = ret'.arg[f] ]_vars

\* a name was updated after the clock moved: the record carries the new name
\* and time and its old created_at, next to a second record
C26_Witness ==
  /\ ret.op = "dbHelpers.updateProfile"
  /\ ret.error = NoError
  /\ ret.arg = [full_name |-> "Zed"]
  /\ ret.data.full_name = "Zed"
  /\ ret.data.updated_at = 1
  /\ ret.data.created_at = 0
  /\ dbProfiles[ret.id] = ret.data
  /\ Cardinality(DOMAIN dbProfiles) = 2

\* C27: ProtectedRoute with allowedRoles renders its children only when a user
\* is signed in and the loaded profile's role is in allowedRoles; in no
\* reachable AuthProvider state (including user set with profile still null or
\* never loaded, and loading = false) are role-restricted children rendered
\* for a user whose role is not allowed.
C27_ChildrenOnlyForAllowedRole ==
  \A allowedRoles \in RouteRoles :
     (mounted /\ ProtectedRoute(allowedRoles) = "children") =>
        /\ auth.user # Null
        /\ auth.profile # Null
        /\ "role" \in DOMAIN auth.profile
        /\ auth.profile.role \in allowedRoles.roles
        /\ RoleOf(auth.user.id) \in allowedRoles.roles

\* the profile is a row as fetchProfile installed it
FetchedRow(profile) ==
  /\ profile # Null
  /\ "id" \in DOMAIN profile
  /\ profile = ProfileOf(profile.id)

\* C28: in every reachable AuthProvider state, a non-null profile belongs to
\* the current user (user is non-null and profile.id = user.id), for every
\* interleaving of auth-state-change events, signOut calls and completions of
\* pending fetchProfile requests; a fetchProfile started for an earlier
\* session never installs its result after the user has signed out or changed.
C28_ProfileBelongsToUser ==
  FetchedRow(auth.profile) =>
     /\ auth.user # Null
     /\ auth.profile.id = auth.user.id

SessionOps == {"authService.signUp", "authService.signIn"}

\* C29: in mock mode, after any sequence of signUp, signIn and signOut calls,
\* getCurrentUser returns the user of the most recent successful signUp or
\* signIn if no signOut followed it and null otherwise; a failed signUp (email
\* already registered) or a failed signIn (unknown email) leaves the current
\* user unchanged. Step by step: a successful signUp or signIn makes its user
\* the current one, signOut makes it null, no other step changes it, and
\* getCurrentUser returns it.
C29_CurrentUserIsLastSession ==
  [][ isDevelopment =>
        /\ (\E op \in SessionOps : Returned(op) /\ ret'.error = NoError)
             => /\ ret'.data # Null
                /\ currentUser' = ret'.data.user
                /\ currentUser'.email = ret'.id
        /\ (\E op \in SessionOps : Returned(op) /\ ret'.error # NoError)
             => /\ ret'.data = Null
                /\ currentUser' = currentUser
        /\ Returned("authService.signOut") => currentUser' = Null
        /\ Returned("authService.getCurrentUser")
             => /\ ret'.data = currentUser
                /\ currentUser' = currentUser
        /\ ~(\E op \in SessionOps \cup {"authService.signOut"} : Returned(op))
             => currentUser' = currentUser ]_vars

\* getCurrentUser returned the registered user who signed up or in last
C29_Witness ==
  /\ isDevelopment
  /\ ret.op = "authService.getCurrentUser"
  /\ ret.data # Null
  /\ ret.data = currentUser
  /\ ret.data.email \in DOMAIN authUsers

\* the ids of the users registered with the mock authService
RegisteredIds == {authUsers[e].user.id : e \in DOMAIN authUsers}

\* C30: in mock mode, after a successful signUp the base Profile of the new
\* user is present in the ProfileStore: dbHelpers.getProfile(user.id) returns
\* a record with the same id, email, full_name and role as the sign-up data
\* (not a 'Profile not found' error), and authService.updateProfile(user.id, u)
\* and dbHelpers.updateProfile(user.id, u) act on the same record.
C30_SignUpProfileInStore ==
  [][ isDevelopment =>
        /\ (Returned("authService.signUp") /\ ret'.error = NoError) =>
             LET id == ret'.data.user.id IN
             /\ id \in DOMAIN dbProfiles'
             /\ dbProfiles'[id].id = id
             /\ dbProfiles'[id].email = ret'.id
             /\ dbProfiles'[id].full_name = ret'.arg.full_name
             /\ dbProfiles'[id].role = ret'.arg.role
        /\ (Returned("dbHelpers.getProfile") /\ ret'.id \in RegisteredIds) =>
             /\ ret'.error = NoError
             /\ ret'.data # Null
        /\ \A id \in RegisteredIds' :
             /\ id \in DOMAIN dbProfiles'
             /\ id \in DOMAIN authProfiles'
             /\ dbProfiles'[id] = authProfiles'[id] ]_vars

====
